---- MODULE Spec2Model ----
(***************************************************************************)
(* Process supervision, health gating and teardown of the integration      *)
(* harnesses under crates/airs-mcp/examples, and the exit codes of their   *)
(* runner entry points.                                                    *)
(*                                                                         *)
(* Spec        the service lifecycle of five harness scripts; `script`     *)
(*             selects the script whose code the actions follow:           *)
(*   "flow"      http-oauth2-client-integration/tests/test_oauth2_flow.py  *)
(*   "integ"     http-oauth2-client-integration/tests/                     *)
(*               test_oauth2_integration.py (pytest class)                 *)
(*   "authflow"  oauth2-integration/tests/                                 *)
(*               test_oauth2_authorization_flow.py                         *)
(*   "edge"      http-oauth2-server-integration/tests/                     *)
(*               test_oauth2_edge_cases.py                                 *)
(*   "stress"    http-apikey-client-integration/tests/                     *)
(*               test_stress_validation.py (pytest class)                  *)
(* SpecRunner  the runner entry points (`run.runner`).                     *)
(* SpecFlow    the PKCE authorization-code flow drivers (`tester.driver`)  *)
(*             of test_oauth2_authorization_flow.py and                    *)
(*             debug_oauth2_flow.py.                                       *)
(* SpecMatrix  the case loops and run_test of test_oauth2_edge_cases.py    *)
(*             and test_stdio_comprehensive.py (`matrix.runner`).          *)
(* SpecCase    single conformance cases: the verdict of a case function    *)
(*             on the answers it gets (`trial`).                           *)
(* SpecPorts   two suites started side by side on one port (`ports`).      *)
(* SpecStdio   the stdio transport tests and the server they talk to       *)
(*             (`stdio`).                                                  *)
(* SpecSummary the lifecycle, summary and exit code of                     *)
(*             oauth2-integration/tests/test_oauth2_integration.py.        *)
(* SpecClient  McpTestClient of simple-mcp-server/test_client.py, its      *)
(*             reader thread and the server it starts (`client`).          *)
(* SpecMint    create_malformed_jwt of test_oauth2_edge_cases.py called    *)
(*             at different times (`mint`).                                *)
(***************************************************************************)
EXTENDS Integers, Sequences, FiniteSets, TLC

\* Poll iterations a health gate can make before its budget is spent
\* (stands for timeout=30 / max_attempts=30 of the scripts).
MaxAttempts == 3

\* Poll iterations of the JWKS loop of the edge-case script (range(10)),
\* scaled like MaxAttempts.
MaxJwksAttempts == 2

Scripts == {"flow", "integ", "authflow", "edge", "stress"}

\* Service handles in declared order.
Handles == 1..2

\* Readiness gates (authflow polls four endpoints of one process).
Gates == 1..4

\* Target of a signal that is not a process of this run.
Foreign == 0

VARIABLES
  script,      \* which harness script runs
  pc,          \* position of the orchestrating script
  ret,         \* value the script will exit with once teardown is over
  exitCode,    \* exit code of the script process (-1: still running)
  cur,         \* service (flow) or gate (authflow, edge) being handled
  attempt,     \* poll iterations spent in the current gate
  proc,        \* OS process of each handle: "none", "running", "exited"
  stubborn,    \* the process does not exit within the grace period on SIGTERM
  serving,     \* the process answers its health probe
  foreign,     \* a process of another run matches the port / name pattern
  processes,   \* handles the script holds (dict keys / non-None attributes)
  gate,        \* gate outcome: "none", "polling", "Ready", "Timeout", "Died"
  lastProbe,   \* outcome of the last probe of each gate
  started,     \* handles in spawn order
  stopped,     \* handles in the order stop was run on them
  signals,     \* signals sent so far: <<signal, target, target was alive>>
  deadStop,    \* stop calls made on an already-dead handle: the handles
               \* (calls) and the signals those calls sent (sigs)
  teardown,    \* the script's teardown has run to its end
  noCleanup,   \* --no-cleanup flag
  sigterm,     \* the script process was ended by an unhandled SIGTERM
  run,         \* state of a runner entry point (SpecRunner)
  buildResult, \* outcome of the cargo build step: "none", "ok", "failed"
  testsRun,    \* a test case of the script has been executed
  tester,      \* fields of the flow tester: pkce, authorization_code, ...
  wire,        \* the last request sent and the response received (SpecFlow)
  matrix,      \* the conformance runner and its counters (SpecMatrix)
  trial,       \* one conformance case and the answer it gets (SpecCase)
  ports,       \* two suites started side by side on one port (SpecPorts)
  stdio,       \* a stdio server and the test that talks to it (SpecStdio)
  client,      \* McpTestClient and the server it drives (SpecClient)
  mint         \* the clock and the malformed tokens made so far (SpecMint)

vars == <<script, pc, ret, exitCode, cur, attempt, proc, stubborn, serving,
          foreign, processes, gate, lastProbe, started, stopped, signals,
          deadStop, teardown, noCleanup, sigterm, run, buildResult,
          testsRun, tester, wire, matrix, trial, ports, stdio, client,
          mint>>

buildVars == <<buildResult, testsRun>>

\* State of the specifications other than Spec and SpecRunner.
auxVars == <<tester, wire, matrix, trial, ports, stdio, client, mint>>

envVars == <<proc, stubborn, serving, foreign>>

----------------------------------------------------------------------------
\* Helpers

InSeq(x, s) == \E i \in 1..Len(s) : s[i] = x

RECURSIVE Remove(_, _)
Remove(s, x) ==
  IF s = <<>> THEN <<>>
  ELSE IF Head(s) = x THEN Remove(Tail(s), x)
  ELSE <<Head(s)>> \o Remove(Tail(s), x)

Reverse(s) == [i \in 1..Len(s) |-> s[Len(s) + 1 - i]]

IndexOf(x, s) == CHOOSE i \in 1..Len(s) : s[i] = x

\* Number of service processes the script supervises.
NumHandles(sc) == IF sc \in {"flow", "integ"} THEN 2 ELSE 1

\* Number of readiness gates the script passes.
NumGates(sc) ==
  CASE sc = "flow" -> 2
    [] sc = "integ" -> 2
    [] sc = "authflow" -> 4
    [] sc = "edge" -> 2
    [] sc = "stress" -> 1

\* The process behind a gate.
GateHandle(sc, g) == IF sc \in {"flow", "integ"} THEN g ELSE 1

ProbeOutcomes == {"ready", "notready", "connerr", "timeout"}

\* What a probe of gate g can return: a ready status code needs a process
\* that answers on the port.
CanProbe(g, o) ==
  o \in ProbeOutcomes /\
  (o = "ready" => (proc[GateHandle(script, g)] = "running"
                   /\ serving[GateHandle(script, g)]))

\* Network timeout, in seconds, of one probe: requests.get(url, timeout=2),
\* timeout=1 in wait_for_mock_server.  A probe that hangs ends as "timeout".
ProbeTimeout(sc) == IF sc = "stress" THEN 1 ELSE 2

\* A failed build that is not looked at: the script goes on to spawn.
AfterBuildFailureIgnored(sc) == "spawn"

\* Where a script goes when cargo build failed: setup_class raises
\* RuntimeError, start_server returns False (run_all_tests returns False and
\* main prints the summary; the edge-case main falls into its finally).
AfterBuildFailure(sc) ==
  IF sc = "authflow" THEN "summary"
  ELSE IF sc = "edge" THEN "finally" ELSE "setuperror"

\* A gate loop that stops at once, whatever budget is left.
BudgetSpentAtOnce(sc, g, n) == TRUE

\* The loop condition of a gate has become false after n iterations:
\* range(max_attempts), `time.time() - start_time < timeout`, and range(10)
\* for the JWKS loop of the edge-case script.
BudgetSpent(sc, g, n) ==
  n >= (IF sc = "edge" /\ g = 2 THEN MaxJwksAttempts ELSE MaxAttempts)

NoRun == [runner |-> "none", sel |-> "none", idx |-> 0,
          outcomes |-> <<>>, results |-> <<>>, returned |-> "none"]

\* OAuth2FlowTester.__init__: nothing generated or received yet.
NoTester == [driver |-> "none", pkce |-> <<>>, authorization_code |-> "",
             access_token |-> "", results |-> <<>>]

\* Nothing sent yet; `redeemed` holds the authorization codes the token
\* endpoint has exchanged for a token in this run.
NoWire == [sent |-> <<>>, response |-> <<>>, redeemed |-> {}]

\* OAuth2EdgeCaseTest.__init__ / ComprehensiveStdioTest.__init__: counters at
\* zero, test_results empty.  `executed`, `outcomes` and `verdicts` keep what
\* ran, how it went and what run_test returned.
NoMatrix == [runner |-> "none", idx |-> 0, executed |-> <<>>,
             outcomes |-> <<>>, verdicts |-> <<>>, test_results |-> <<>>,
             tests_run |-> 0, tests_passed |-> 0, tests_failed |-> 0]

\* No conformance case is under way.
NoTrial == [suite |-> "none", case |-> "none", responses |-> <<>>,
            verdict |-> "none"]

\* No suite works on the shared port.
NoPorts == [occupant |-> "free", sup |-> <<>>]

\* McpTestClient.__init__: no process, an empty response queue, no reader
\* thread.  `inbox` and `stdout` are the two pipes of the server, `calls`
\* what each send_request was given and what it returned.
NoClient == [pc |-> "none", proc |-> "none", stubborn |-> FALSE,
             running |-> FALSE, next |-> 0, inbox |-> <<>>, stdout |-> <<>>,
             response_queue |-> <<>>, calls |-> <<>>]

\* No malformed token has been made; the clock reads 0.
NoMint == [now |-> 0, made |-> <<>>]

\* No stdio server has been started.
NoStdio == [test |-> "none", written |-> <<>>, inbox |-> <<>>,
            outbox |-> <<>>, responses |-> <<>>, verdict |-> "none"]

----------------------------------------------------------------------------
\* Initial state: nothing spawned; another run may have left a process behind.

InitEnv ==
  /\ proc = [h \in Handles |-> "none"]
  /\ stubborn = [h \in Handles |-> FALSE]
  /\ serving = [h \in Handles |-> FALSE]
  /\ processes = <<>>
  /\ gate = [g \in Gates |-> "none"]
  /\ lastProbe = [g \in Gates |-> "none"]
  /\ started = <<>>
  /\ stopped = <<>>
  /\ signals = <<>>
  /\ deadStop = [calls |-> {}, sigs |-> {}]
  /\ teardown = FALSE
  /\ sigterm = FALSE
  /\ ret = -1
  /\ exitCode = -1
  /\ cur = 0
  /\ attempt = 0
  /\ buildResult = "none"
  /\ testsRun = FALSE

Init ==
  /\ script \in Scripts
  /\ pc = "start"
  /\ foreign \in BOOLEAN
  /\ noCleanup \in (IF script \in {"authflow", "edge"} THEN BOOLEAN
                    ELSE {FALSE})
  /\ run = NoRun
  /\ tester = NoTester
  /\ wire = NoWire
  /\ matrix = NoMatrix
  /\ trial = NoTrial
  /\ ports = NoPorts
  /\ stdio = NoStdio
  /\ client = NoClient
  /\ mint = NoMint
  /\ InitEnv

----------------------------------------------------------------------------
\* Environment: the supervised processes.

Running == pc \notin {"exited"}

\* A spawned server starts answering its health endpoint.
BecomeServing(h) ==
  /\ Running
  /\ proc[h] = "running" /\ ~serving[h]
  /\ serving' = [serving EXCEPT ![h] = TRUE]
  /\ UNCHANGED <<script, pc, ret, exitCode, cur, attempt, proc, stubborn,
                 foreign, processes, gate, lastProbe, started, stopped,
                 signals, deadStop, teardown, noCleanup, sigterm, run,
                 auxVars, buildVars>>

\* A spawned server exits on its own.
Crash(h) ==
  /\ Running
  /\ proc[h] = "running"
  /\ proc' = [proc EXCEPT ![h] = "exited"]
  /\ serving' = [serving EXCEPT ![h] = FALSE]
  /\ UNCHANGED <<script, pc, ret, exitCode, cur, attempt, stubborn,
                 foreign, processes, gate, lastProbe, started, stopped,
                 signals, deadStop, teardown, noCleanup, sigterm, run,
                 auxVars, buildVars>>

----------------------------------------------------------------------------
\* Stopping a process.  The operators thread a record
\* [proc, serving, foreign, processes, stopped, signals, deadStop].

StopState == [proc |-> proc, serving |-> serving, foreign |-> foreign,
              processes |-> processes, stopped |-> stopped,
              signals |-> signals, deadStop |-> deadStop]

SetStopState(st) ==
  /\ proc' = st.proc
  /\ serving' = st.serving
  /\ foreign' = st.foreign
  /\ processes' = st.processes
  /\ stopped' = st.stopped
  /\ signals' = st.signals
  /\ deadStop' = st.deadStop

\* Bookkeeping of one stop call on handle h that sent the signals `sent`.
NoteStop(st, h, sent) ==
  IF st.proc[h] = "running" THEN st.deadStop
  ELSE [st.deadStop EXCEPT !.calls = @ \cup {h},
                           !.sigs = @ \cup {sent[i] : i \in 1..Len(sent)}]

\* process.terminate() sent without looking at the process first.
PopenTerminateBlind(st, h) == <<<<"TERM", h, st.proc[h] = "running">>>>

\* process.terminate(): Popen polls first and sends nothing to a process that
\* has exited.
PopenTerminate(st, h) ==
  IF st.proc[h] = "running" THEN <<<<"TERM", h, TRUE>>>> ELSE <<>>

\* process.wait(timeout=5) after terminate(): TimeoutExpired is raised when
\* the process is still there after the grace period.
WaitTimesOut(st, h) == st.proc[h] = "running" /\ stubborn[h]

\* terminate(); wait(timeout=5); on TimeoutExpired kill(); wait()
\* (ServerManager.stop_server body, teardown_class per process).
TerminateWaitKill(st, h) ==
  LET sent == PopenTerminate(st, h) \o
              (IF WaitTimesOut(st, h) THEN <<<<"KILL", h, TRUE>>>> ELSE <<>>)
  IN [st EXCEPT !.proc[h] = "exited",
                !.serving[h] = FALSE,
                !.stopped = Append(@, h),
                !.signals = @ \o sent,
                !.deadStop = NoteStop(st, h, sent)]

\* stop_server that leaves the entry of the server in self.processes.
StopServerKeepsEntry(st, h) ==
  IF ~InSeq(h, st.processes) THEN st ELSE TerminateWaitKill(st, h)

\* ServerManager.stop_server(server_name)
StopServer(st, h) ==
  IF ~InSeq(h, st.processes) THEN st
  ELSE [TerminateWaitKill(st, h) EXCEPT !.processes = Remove(@, h)]

\* The handles held, latest first.
StopOrderReversed(held) == Reverse(held)

\* The order in which stop_all_servers visits the handles it holds:
\* list(self.processes.keys()), insertion order.
StopOrder(held) == held

RECURSIVE StopEach(_, _)
StopEach(st, order) ==
  IF order = <<>> THEN st
  ELSE StopEach(StopServer(st, Head(order)), Tail(order))

\* stop_all_servers that stops nothing.
StopAllServersNothing(st) == st

\* ServerManager.stop_all_servers()
StopAllServers(st) == StopEach(st, StopOrder(st.processes))

\* kill_processes_on_ports: lsof -ti :port, kill -9 each pid found.
KillProcessesOnPorts(st) ==
  IF st.foreign
  THEN [st EXCEPT !.foreign = FALSE,
                  !.signals = Append(@, <<"KILL", Foreign, TRUE>>)]
  ELSE st

----------------------------------------------------------------------------
\* test_oauth2_flow.py: ServerManager and main()

\* Spawning handle h: Popen succeeded.
Spawn(h) ==
  /\ proc' = [proc EXCEPT ![h] = "running"]
  /\ \E b \in BOOLEAN : stubborn' = [stubborn EXCEPT ![h] = b]
  /\ started' = Append(started, h)

\* start_all_servers carrying on with the next server after a failed one.
AfterStartFailureContinue(h) ==
  IF h < NumHandles("flow") THEN [pc |-> "spawn", cur |-> h + 1]
  ELSE [pc |-> "suite", cur |-> h]

\* Where start_all_servers goes when start_server(h) returned False:
\* it stops everything and returns False, starting nothing further.
AfterStartFailure(h) == [pc |-> "abort", cur |-> h]

\* start_all_servers that does not move on to the next server.
AfterStartSuccessSameServer(h) == [pc |-> "spawn", cur |-> h]

\* Where start_all_servers goes when start_server(h) returned True.
AfterStartSuccess(h) ==
  IF h < NumHandles("flow") THEN [pc |-> "spawn", cur |-> h + 1]
  ELSE [pc |-> "suite", cur |-> h]

\* start_all_servers: kill_processes_on_ports([3002, 3003])
FlowKillPorts ==
  /\ script = "flow" /\ pc = "start"
  /\ SetStopState(KillProcessesOnPorts(StopState))
  /\ pc' = "spawn" /\ cur' = 1
  /\ UNCHANGED <<script, ret, exitCode, attempt, stubborn, gate, lastProbe,
                 started, teardown, noCleanup, sigterm, run,
                 auxVars, buildVars>>

\* start_server up to the health wait: Popen, then processes[name] = process.
\* Popen raising is caught by start_server, which returns False.
FlowSpawn ==
  /\ script = "flow" /\ pc = "spawn"
  /\ \/ /\ Spawn(cur)
        /\ processes' = Append(processes, cur)
        /\ gate' = [gate EXCEPT ![cur] = "polling"]
        /\ attempt' = 0
        /\ pc' = "gate"
        /\ UNCHANGED cur
     \/ /\ pc' = AfterStartFailure(cur).pc
        /\ cur' = AfterStartFailure(cur).cur
        /\ UNCHANGED <<proc, stubborn, started, processes, gate, attempt>>
  /\ UNCHANGED <<script, ret, exitCode, serving, foreign, lastProbe, stopped,
                 signals, deadStop, teardown, noCleanup, sigterm, run,
                 auxVars, buildVars>>

\* The status test of wait_for_server_health: response.status_code == 200.
FlowProbeReady(o) == o = "ready"

\* One iteration of the loop of wait_for_server_health: probe, then the
\* poll() check of the process, then sleep(1).
FlowPoll ==
  /\ script = "flow" /\ pc = "gate" /\ ~BudgetSpent("flow", cur, attempt)
  /\ \E o \in ProbeOutcomes :
       /\ CanProbe(cur, o)
       /\ lastProbe' = [lastProbe EXCEPT ![cur] = o]
       /\ IF FlowProbeReady(o)
          THEN /\ gate' = [gate EXCEPT ![cur] = "Ready"]
               /\ pc' = AfterStartSuccess(cur).pc
               /\ cur' = AfterStartSuccess(cur).cur
               /\ UNCHANGED attempt
          ELSE IF InSeq(cur, processes) /\ proc[cur] = "exited"
          THEN /\ gate' = [gate EXCEPT ![cur] = "Died"]
               /\ pc' = "gatefail"
               /\ UNCHANGED <<cur, attempt>>
          ELSE /\ attempt' = attempt + 1
               /\ UNCHANGED <<gate, pc, cur>>
  /\ UNCHANGED <<script, ret, exitCode, proc, stubborn, serving, foreign,
                 processes, started, stopped, signals, deadStop, teardown,
                 noCleanup, sigterm, run, auxVars, buildVars>>

\* wait_for_server_health: the while condition fails, return False.
FlowGateTimeout ==
  /\ script = "flow" /\ pc = "gate" /\ BudgetSpent("flow", cur, attempt)
  /\ gate' = [gate EXCEPT ![cur] = "Timeout"]
  /\ pc' = "gatefail"
  /\ UNCHANGED <<script, ret, exitCode, cur, attempt, proc, stubborn,
                 serving, foreign, processes, lastProbe, started, stopped,
                 signals, deadStop, teardown, noCleanup, sigterm, run,
                 auxVars, buildVars>>

\* start_server: the else branch, self.stop_server(server_name); return False
FlowGateFail ==
  /\ script = "flow" /\ pc = "gatefail"
  /\ SetStopState(StopServer(StopState, cur))
  /\ pc' = AfterStartFailure(cur).pc
  /\ cur' = AfterStartFailure(cur).cur
  /\ UNCHANGED <<script, ret, exitCode, attempt, stubborn, gate, lastProbe,
                 started, teardown, noCleanup, sigterm, run,
                 auxVars, buildVars>>

\* start_all_servers: self.stop_all_servers(); return False; main returns 1.
FlowAbort ==
  /\ script = "flow" /\ pc = "abort"
  /\ SetStopState(StopAllServers(StopState))
  /\ ret' = 1
  /\ pc' = "finally"
  /\ UNCHANGED <<script, exitCode, cur, attempt, stubborn, gate, lastProbe,
                 started, teardown, noCleanup, sigterm, run,
                 auxVars, buildVars>>

\* main: the flow test against the ready servers; 0 on success, 1 on a failed
\* flow or an exception.
FlowSuite ==
  /\ script = "flow" /\ pc = "suite"
  /\ ret' \in {0, 1}
  /\ testsRun' = TRUE
  /\ pc' = "finally"
  /\ UNCHANGED <<script, exitCode, cur, attempt, proc, stubborn, serving,
                 foreign, processes, gate, lastProbe, started, stopped,
                 signals, deadStop, teardown, noCleanup, sigterm, run, auxVars,
                 buildResult>>

\* signal_handler (SIGINT, SIGTERM): sys.exit(1) unwinds the try block of
\* main into its finally clause.
FlowInterrupt ==
  /\ script = "flow"
  /\ pc \in {"start", "spawn", "gate", "gatefail", "abort", "suite"}
  /\ ret' = 1
  /\ pc' = "finally"
  /\ UNCHANGED <<script, exitCode, cur, attempt, proc, stubborn, serving,
                 foreign, processes, gate, lastProbe, started, stopped,
                 signals, deadStop, teardown, noCleanup, sigterm, run,
                 auxVars, buildVars>>

\* main: finally: server_manager.stop_all_servers(); then sys.exit(exit_code)
FlowFinally ==
  /\ script = "flow" /\ pc = "finally"
  /\ SetStopState(StopAllServers(StopState))
  /\ teardown' = TRUE
  /\ exitCode' = ret
  /\ pc' = "exited"
  /\ UNCHANGED <<script, ret, cur, attempt, stubborn, gate, lastProbe,
                 started, noCleanup, sigterm, run, auxVars, buildVars>>

FlowNext ==
  \/ FlowKillPorts \/ FlowSpawn \/ FlowPoll \/ FlowGateTimeout
  \/ FlowGateFail \/ FlowAbort \/ FlowSuite \/ FlowInterrupt \/ FlowFinally

----------------------------------------------------------------------------
\* test_oauth2_integration.py: class TestOAuth2Integration, run by pytest.
\* pytest calls teardown_class only when setup_class returned normally.

\* The gates still polling become `outcome`.
ResolvePolling(g0, outcome) ==
  [g \in Gates |-> IF g \in g0 /\ gate[g] = "polling" THEN outcome ELSE gate[g]]

\* teardown_class stops oauth2_process, then mcp_process.
TeardownOrder == <<1, 2>>

RECURSIVE TeardownEach(_, _)
TeardownEach(st, order) ==
  IF order = <<>> THEN st
  ELSE TeardownEach(IF InSeq(Head(order), st.processes)
                    THEN TerminateWaitKill(st, Head(order)) ELSE st,
                    Tail(order))

\* teardown_class
TeardownClass(st) == TeardownEach(st, TeardownOrder)

\* setup_class: kill_processes_on_ports([oauth2_port, mcp_port])
IntegKillPorts ==
  /\ script = "integ" /\ pc = "start"
  /\ SetStopState(KillProcessesOnPorts(StopState))
  /\ pc' = "build"
  /\ UNCHANGED <<script, ret, exitCode, cur, attempt, stubborn, gate,
                 lastProbe, started, teardown, noCleanup, sigterm, run,
                 auxVars, buildVars>>

\* build_servers: a failed cargo build raises RuntimeError out of setup_class.
IntegBuild ==
  /\ script = "integ" /\ pc = "build"
  /\ \/ buildResult' = "ok" /\ pc' = "spawn" /\ cur' = 1
     \/ /\ buildResult' = "failed"
        /\ pc' = AfterBuildFailure(script) /\ UNCHANGED cur
  /\ UNCHANGED <<script, ret, exitCode, attempt, proc, stubborn, serving,
                 foreign, processes, gate, lastProbe, started, stopped,
                 signals, deadStop, teardown, noCleanup, sigterm, run, auxVars,
                 testsRun>>

\* start_oauth2_server, then start_mcp_server: Popen without any wait.
IntegSpawn ==
  /\ script = "integ" /\ pc = "spawn"
  /\ \/ /\ Spawn(cur)
        /\ processes' = Append(processes, cur)
        /\ IF cur < NumHandles("integ")
           THEN cur' = cur + 1 /\ UNCHANGED <<pc, gate, attempt>>
           ELSE /\ pc' = "gate"
                /\ gate' = [g \in Gates |->
                              IF g \in 1..NumGates("integ") THEN "polling"
                              ELSE gate[g]]
                /\ attempt' = 0
                /\ UNCHANGED cur
     \/ /\ pc' = "setuperror"
        /\ UNCHANGED <<proc, stubborn, started, processes, cur, gate, attempt>>
  /\ UNCHANGED <<script, ret, exitCode, serving, foreign, lastProbe, stopped,
                 signals, deadStop, teardown, noCleanup, sigterm, run,
                 auxVars, buildVars>>

\* One iteration of the loop of wait_for_servers: probe each server that is
\* not ready yet, return when both are, raise when a process has exited,
\* sleep(0.5).
IntegPoll ==
  /\ script = "integ" /\ pc = "gate" /\ ~BudgetSpent("integ", 1, attempt)
  /\ \E o1 \in (IF gate[1] = "Ready" THEN {lastProbe[1]}
                ELSE {o \in ProbeOutcomes : CanProbe(1, o)}),
        o2 \in (IF gate[2] = "Ready" THEN {lastProbe[2]}
                ELSE {o \in ProbeOutcomes : CanProbe(2, o)}) :
       LET ready1 == gate[1] = "Ready" \/ o1 = "ready"
           ready2 == gate[2] = "Ready" \/ o2 = "ready"
           g1 == [gate EXCEPT ![1] = IF ready1 THEN "Ready" ELSE @,
                              ![2] = IF ready2 THEN "Ready" ELSE @]
       IN /\ lastProbe' = [lastProbe EXCEPT ![1] = o1, ![2] = o2]
          /\ IF ready1 /\ ready2
             THEN gate' = g1 /\ pc' = "tests" /\ UNCHANGED attempt
             ELSE IF proc[1] = "exited"
             THEN /\ gate' = [g1 EXCEPT ![1] = IF @ = "polling" THEN "Died" ELSE @]
                  /\ pc' = "setuperror" /\ UNCHANGED attempt
             ELSE IF proc[2] = "exited"
             THEN /\ gate' = [g1 EXCEPT ![2] = IF @ = "polling" THEN "Died" ELSE @]
                  /\ pc' = "setuperror" /\ UNCHANGED attempt
             ELSE gate' = g1 /\ attempt' = attempt + 1 /\ UNCHANGED pc
  /\ UNCHANGED <<script, ret, exitCode, cur, proc, stubborn, serving, foreign,
                 processes, started, stopped, signals, deadStop, teardown,
                 noCleanup, sigterm, run, auxVars, buildVars>>

\* wait_for_servers: the loop ran out of time, RuntimeError("... failed to
\* start").
IntegGateTimeout ==
  /\ script = "integ" /\ pc = "gate" /\ BudgetSpent("integ", 1, attempt)
  /\ gate' = ResolvePolling({1, 2}, "Timeout")
  /\ pc' = "setuperror"
  /\ UNCHANGED <<script, ret, exitCode, cur, attempt, proc, stubborn,
                 serving, foreign, processes, lastProbe, started, stopped,
                 signals, deadStop, teardown, noCleanup, sigterm, run,
                 auxVars, buildVars>>

\* setup_class raised: pytest reports the error for every test of the class
\* and does not call teardown_class.
IntegSetupError ==
  /\ script = "integ" /\ pc = "setuperror"
  /\ exitCode' = 1
  /\ pc' = "exited"
  /\ UNCHANGED <<script, ret, cur, attempt, proc, stubborn, serving, foreign,
                 processes, gate, lastProbe, started, stopped, signals,
                 deadStop, teardown, noCleanup, sigterm, run,
                 auxVars, buildVars>>

\* The test methods of the class.
IntegTests ==
  /\ script = "integ" /\ pc = "tests"
  /\ ret' \in {0, 1}
  /\ testsRun' = TRUE
  /\ pc' = "teardown"
  /\ UNCHANGED <<script, exitCode, cur, attempt, proc, stubborn, serving,
                 foreign, processes, gate, lastProbe, started, stopped,
                 signals, deadStop, teardown, noCleanup, sigterm, run, auxVars,
                 buildResult>>

\* teardown_class
IntegTeardown ==
  /\ script = "integ" /\ pc = "teardown"
  /\ SetStopState(TeardownClass(StopState))
  /\ teardown' = TRUE
  /\ exitCode' = ret
  /\ pc' = "exited"
  /\ UNCHANGED <<script, ret, cur, attempt, stubborn, gate, lastProbe,
                 started, noCleanup, sigterm, run, auxVars, buildVars>>

IntegNext ==
  \/ IntegKillPorts \/ IntegBuild \/ IntegSpawn \/ IntegPoll
  \/ IntegGateTimeout \/ IntegSetupError \/ IntegTests \/ IntegTeardown

----------------------------------------------------------------------------
\* test_stress_validation.py (http-apikey-client-integration): class
\* TestHttpClientValidation, run by pytest.

\* setup_class: cargo build; RuntimeError when it fails.
StressBuild ==
  /\ script = "stress" /\ pc = "start"
  /\ \/ buildResult' = "ok" /\ pc' = "spawn" /\ cur' = 1
     \/ /\ buildResult' = "failed"
        /\ pc' = AfterBuildFailure(script) /\ UNCHANGED cur
  /\ UNCHANGED <<script, ret, exitCode, attempt, proc, stubborn, serving,
                 foreign, processes, gate, lastProbe, started, stopped,
                 signals, deadStop, teardown, noCleanup, sigterm, run, auxVars,
                 testsRun>>

\* start_mock_server
StressSpawn ==
  /\ script = "stress" /\ pc = "spawn"
  /\ \/ /\ Spawn(1)
        /\ processes' = Append(processes, 1)
        /\ gate' = [gate EXCEPT ![1] = "polling"]
        /\ attempt' = 0
        /\ pc' = "gate"
     \/ /\ pc' = "setuperror"
        /\ UNCHANGED <<proc, stubborn, started, processes, gate, attempt>>
  /\ UNCHANGED <<script, ret, exitCode, cur, serving, foreign, lastProbe,
                 stopped, signals, deadStop, teardown, noCleanup, sigterm,
                 run, auxVars, buildVars>>

\* wait_for_mock_server: the probe outcomes after which the function returns.
\* The return statement follows the status test instead of being inside it,
\* so every response ends the wait; only a RequestException does not.
StressReturns(o) == o \in {"ready", "notready"}

\* One iteration of the loop of wait_for_mock_server.
StressPoll ==
  /\ script = "stress" /\ pc = "gate" /\ ~BudgetSpent("stress", 1, attempt)
  /\ \E o \in ProbeOutcomes :
       /\ CanProbe(1, o)
       /\ lastProbe' = [lastProbe EXCEPT ![1] = o]
       /\ IF StressReturns(o)
          THEN /\ gate' = [gate EXCEPT ![1] = "Ready"]
               /\ pc' = "tests"
               /\ UNCHANGED attempt
          ELSE IF proc[1] = "exited"
          THEN /\ gate' = [gate EXCEPT ![1] = "Died"]
               /\ pc' = "setuperror"
               /\ UNCHANGED attempt
          ELSE attempt' = attempt + 1 /\ UNCHANGED <<gate, pc>>
  /\ UNCHANGED <<script, ret, exitCode, cur, proc, stubborn, serving, foreign,
                 processes, started, stopped, signals, deadStop, teardown,
                 noCleanup, sigterm, run, auxVars, buildVars>>

\* wait_for_mock_server: RuntimeError("Mock server failed to start within ...")
StressGateTimeout ==
  /\ script = "stress" /\ pc = "gate" /\ BudgetSpent("stress", 1, attempt)
  /\ gate' = [gate EXCEPT ![1] = "Timeout"]
  /\ pc' = "setuperror"
  /\ UNCHANGED <<script, ret, exitCode, cur, attempt, proc, stubborn,
                 serving, foreign, processes, lastProbe, started, stopped,
                 signals, deadStop, teardown, noCleanup, sigterm, run,
                 auxVars, buildVars>>

\* setup_class raised: no teardown_class.
StressSetupError ==
  /\ script = "stress" /\ pc = "setuperror"
  /\ exitCode' = 1
  /\ pc' = "exited"
  /\ UNCHANGED <<script, ret, cur, attempt, proc, stubborn, serving, foreign,
                 processes, gate, lastProbe, started, stopped, signals,
                 deadStop, teardown, noCleanup, sigterm, run,
                 auxVars, buildVars>>

\* The test methods of the class.
StressTests ==
  /\ script = "stress" /\ pc = "tests"
  /\ ret' \in {0, 1}
  /\ testsRun' = TRUE
  /\ pc' = "teardown"
  /\ UNCHANGED <<script, exitCode, cur, attempt, proc, stubborn, serving,
                 foreign, processes, gate, lastProbe, started, stopped,
                 signals, deadStop, teardown, noCleanup, sigterm, run, auxVars,
                 buildResult>>

\* teardown_class: terminate(); wait(timeout=5); kill() on TimeoutExpired.
StressTeardown ==
  /\ script = "stress" /\ pc = "teardown"
  /\ SetStopState(IF InSeq(1, processes)
                  THEN TerminateWaitKill(StopState, 1) ELSE StopState)
  /\ teardown' = TRUE
  /\ exitCode' = ret
  /\ pc' = "exited"
  /\ UNCHANGED <<script, ret, cur, attempt, stubborn, gate, lastProbe,
                 started, noCleanup, sigterm, run, auxVars, buildVars>>

StressNext ==
  \/ StressBuild \/ StressSpawn \/ StressPoll \/ StressGateTimeout
  \/ StressSetupError \/ StressTests \/ StressTeardown

----------------------------------------------------------------------------
\* test_oauth2_authorization_flow.py: OAuth2FlowTester and main().
\* One server process (handle 1) serves the four gated endpoints.

\* pkill -f <pattern>: SIGTERM to every process whose command line matches;
\* `own` tells whether the script's own server matches the pattern.
Pkill(st, own) ==
  (IF st.foreign THEN <<<<"TERM", Foreign, TRUE>>>> ELSE <<>>) \o
  (IF own /\ st.proc[1] = "running" THEN <<<<"TERM", 1, TRUE>>>> ELSE <<>>)

\* OAuth2FlowTester.cleanup(): pkill -f oauth2-mcp-server, sleep(1); then,
\* when server_pid is set, os.kill(SIGTERM), sleep(2), os.kill(SIGKILL).
\* The child is never waited for, so its pid stays valid after it has exited
\* and neither os.kill raises ProcessLookupError.  fdies: the foreign process
\* exits on the SIGTERM of pkill.
AuthflowCleanup(st, fdies) ==
  LET held == InSeq(1, st.processes)
      pk == Pkill(st, TRUE)
      alive1 == st.proc[1] = "running" /\ stubborn[1]
      own == IF held THEN <<<<"TERM", 1, alive1>>, <<"KILL", 1, alive1>>>>
             ELSE <<>>
      sent == pk \o own
  IN [st EXCEPT
        !.proc[1] = IF st.proc[1] = "running" /\ (held \/ ~stubborn[1])
                    THEN "exited" ELSE @,
        !.serving[1] = IF st.proc[1] = "running" /\ (held \/ ~stubborn[1])
                       THEN FALSE ELSE @,
        !.foreign = st.foreign /\ ~fdies,
        !.stopped = IF held THEN Append(@, 1) ELSE @,
        !.signals = @ \o sent,
        !.deadStop = IF held THEN NoteStop(st, 1, sent) ELSE @]

\* run_all_tests: self.cleanup() before anything is started.
AuthStartCleanup ==
  /\ script = "authflow" /\ pc = "start"
  /\ \E fdies \in BOOLEAN : SetStopState(AuthflowCleanup(StopState, fdies))
  /\ pc' = "build"
  /\ UNCHANGED <<script, ret, exitCode, cur, attempt, stubborn, gate,
                 lastProbe, started, teardown, noCleanup, sigterm, run,
                 auxVars, buildVars>>

\* start_server: cargo build; on CalledProcessError return False.
AuthBuild ==
  /\ script = "authflow" /\ pc = "build"
  /\ \/ buildResult' = "ok" /\ pc' = "spawn" /\ UNCHANGED ret
     \/ /\ buildResult' = "failed"
        /\ pc' = AfterBuildFailure(script) /\ ret' = 1
  /\ UNCHANGED <<script, exitCode, cur, attempt, proc, stubborn, serving,
                 foreign, processes, gate, lastProbe, started, stopped,
                 signals, deadStop, teardown, noCleanup, sigterm, run, auxVars,
                 testsRun>>

\* start_server: Popen, server_pid = pid; any exception returns False.
AuthSpawn ==
  /\ script = "authflow" /\ pc = "spawn"
  /\ \/ /\ Spawn(1)
        /\ processes' = Append(processes, 1)
        /\ gate' = [gate EXCEPT ![1] = "polling"]
        /\ cur' = 1 /\ attempt' = 0
        /\ pc' = "gate"
        /\ UNCHANGED ret
     \/ /\ pc' = "summary" /\ ret' = 1
        /\ UNCHANGED <<proc, stubborn, started, processes, gate, cur, attempt>>
  /\ UNCHANGED <<script, exitCode, serving, foreign, lastProbe, stopped,
                 signals, deadStop, teardown, noCleanup, sigterm, run,
                 auxVars, buildVars>>

\* One iteration of one of the four loops of wait_for_server: probe, then
\* sleep(1); the server process is never looked at.
AuthPoll ==
  /\ script = "authflow" /\ pc = "gate" /\ ~BudgetSpent("authflow", cur, attempt)
  /\ \E o \in ProbeOutcomes :
       /\ CanProbe(cur, o)
       /\ lastProbe' = [lastProbe EXCEPT ![cur] = o]
       /\ IF o = "ready"
          THEN IF cur < NumGates("authflow")
               THEN /\ gate' = [gate EXCEPT ![cur] = "Ready",
                                            ![cur + 1] = "polling"]
                    /\ cur' = cur + 1 /\ attempt' = 0
                    /\ UNCHANGED <<pc, ret>>
               ELSE /\ gate' = [gate EXCEPT ![cur] = "Ready"]
                    /\ pc' = "tests"
                    /\ UNCHANGED <<cur, attempt, ret>>
          ELSE /\ attempt' = attempt + 1
               /\ UNCHANGED <<gate, pc, cur, ret>>
  /\ UNCHANGED <<script, exitCode, proc, stubborn, serving, foreign,
                 processes, started, stopped, signals, deadStop, teardown,
                 noCleanup, sigterm, run, auxVars, buildVars>>

\* wait_for_server: the for loop ran out, add_result(..., False, ...) and
\* return False.
AuthGateTimeout ==
  /\ script = "authflow" /\ pc = "gate" /\ BudgetSpent("authflow", cur, attempt)
  /\ gate' = [gate EXCEPT ![cur] = "Timeout"]
  /\ pc' = "summary" /\ ret' = 1
  /\ UNCHANGED <<script, exitCode, cur, attempt, proc, stubborn, serving,
                 foreign, processes, lastProbe, started, stopped, signals,
                 deadStop, teardown, noCleanup, sigterm, run,
                 auxVars, buildVars>>

\* run_all_tests: the six flow tests; True only when all returned True.
AuthTests ==
  /\ script = "authflow" /\ pc = "tests"
  /\ ret' \in {0, 1}
  /\ testsRun' = TRUE
  /\ pc' = "summary"
  /\ UNCHANGED <<script, exitCode, cur, attempt, proc, stubborn, serving,
                 foreign, processes, gate, lastProbe, started, stopped,
                 signals, deadStop, teardown, noCleanup, sigterm, run, auxVars,
                 buildResult>>

\* run_all_tests: except KeyboardInterrupt: return False
AuthInterrupt ==
  /\ script = "authflow"
  /\ pc \in {"start", "build", "spawn", "gate", "tests"}
  /\ ret' = 1
  /\ pc' = "summary"
  /\ UNCHANGED <<script, exitCode, cur, attempt, proc, stubborn, serving,
                 foreign, processes, gate, lastProbe, started, stopped,
                 signals, deadStop, teardown, noCleanup, sigterm, run,
                 auxVars, buildVars>>

\* main: print_summary(); if not args.no_cleanup: tester.cleanup()
AuthSummary ==
  /\ script = "authflow" /\ pc = "summary"
  /\ IF noCleanup
     THEN UNCHANGED <<proc, serving, foreign, processes, stopped, signals,
                      deadStop, teardown>>
     ELSE /\ \E fdies \in BOOLEAN :
               SetStopState(AuthflowCleanup(StopState, fdies))
          /\ teardown' = TRUE
  /\ pc' = "exit"
  /\ UNCHANGED <<script, ret, exitCode, cur, attempt, stubborn, gate,
                 lastProbe, started, noCleanup, sigterm, run,
                 auxVars, buildVars>>

\* main: sys.exit(0 if success else 1)
AuthExit ==
  /\ script = "authflow" /\ pc = "exit"
  /\ exitCode' = ret
  /\ pc' = "exited"
  /\ UNCHANGED <<script, ret, cur, attempt, proc, stubborn, serving, foreign,
                 processes, gate, lastProbe, started, stopped, signals,
                 deadStop, teardown, noCleanup, sigterm, run,
                 auxVars, buildVars>>

\* main: except KeyboardInterrupt: tester.cleanup(); sys.exit(1)
AuthInterruptMain ==
  /\ script = "authflow" /\ pc \in {"summary", "exit"}
  /\ \E fdies \in BOOLEAN : SetStopState(AuthflowCleanup(StopState, fdies))
  /\ teardown' = TRUE
  /\ exitCode' = 1
  /\ pc' = "exited"
  /\ UNCHANGED <<script, ret, cur, attempt, stubborn, gate, lastProbe,
                 started, noCleanup, sigterm, run, auxVars, buildVars>>

\* main installs no handler for SIGTERM: the default action ends the script
\* at once, and no except or cleanup code runs.
AuthSigterm ==
  /\ script = "authflow" /\ pc # "exited"
  /\ sigterm' = TRUE
  /\ exitCode' = 143
  /\ pc' = "exited"
  /\ UNCHANGED <<script, ret, cur, attempt, proc, stubborn, serving, foreign,
                 processes, gate, lastProbe, started, stopped, signals,
                 deadStop, teardown, noCleanup, run, auxVars, buildVars>>

AuthNext ==
  \/ AuthStartCleanup \/ AuthBuild \/ AuthSpawn \/ AuthPoll
  \/ AuthGateTimeout \/ AuthTests \/ AuthInterrupt \/ AuthSummary
  \/ AuthExit \/ AuthInterruptMain \/ AuthSigterm

----------------------------------------------------------------------------
\* test_oauth2_edge_cases.py: OAuth2EdgeCaseTest and main().
\* One server process (handle 1); gate 1 is the MCP endpoint loop, gate 2 the
\* JWKS loop.

\* OAuth2EdgeCaseTest.cleanup(): terminate() and wait(timeout=5) on
\* server_process, where TimeoutExpired is caught and logged and nothing else
\* is done; then pkill -f ':3002', which the server's own command line (no
\* arguments) does not match.
EdgeCleanup(st, fdies) ==
  LET held == InSeq(1, st.processes)
      term == IF held THEN PopenTerminate(st, 1) ELSE <<>>
      gone == held /\ st.proc[1] = "running" /\ ~WaitTimesOut(st, 1)
      sent == term \o Pkill(st, FALSE)
  IN [st EXCEPT
        !.proc[1] = IF gone THEN "exited" ELSE @,
        !.serving[1] = IF gone THEN FALSE ELSE @,
        !.foreign = st.foreign /\ ~fdies,
        !.stopped = IF held THEN Append(@, 1) ELSE @,
        !.signals = @ \o sent,
        !.deadStop = IF held THEN NoteStop(st, 1, sent) ELSE @]

\* run_all_edge_case_tests: self.cleanup() before anything is started.
EdgeStartCleanup ==
  /\ script = "edge" /\ pc = "start"
  /\ \E fdies \in BOOLEAN : SetStopState(EdgeCleanup(StopState, fdies))
  /\ pc' = "build"
  /\ UNCHANGED <<script, ret, exitCode, cur, attempt, stubborn, gate,
                 lastProbe, started, teardown, noCleanup, sigterm, run,
                 auxVars, buildVars>>

\* start_server: cargo build; a failure returns False and main returns 1.
EdgeBuild ==
  /\ script = "edge" /\ pc = "build"
  /\ \/ buildResult' = "ok" /\ pc' = "spawn" /\ UNCHANGED ret
     \/ /\ buildResult' = "failed"
        /\ pc' = AfterBuildFailure(script) /\ ret' = 1
  /\ UNCHANGED <<script, exitCode, cur, attempt, proc, stubborn, serving,
                 foreign, processes, gate, lastProbe, started, stopped,
                 signals, deadStop, teardown, noCleanup, sigterm, run, auxVars,
                 testsRun>>

\* start_server: Popen; any exception returns False.
EdgeSpawn ==
  /\ script = "edge" /\ pc = "spawn"
  /\ \/ /\ Spawn(1)
        /\ processes' = Append(processes, 1)
        /\ gate' = [gate EXCEPT ![1] = "polling"]
        /\ cur' = 1 /\ attempt' = 0
        /\ pc' = "gate"
        /\ UNCHANGED ret
     \/ /\ pc' = "finally" /\ ret' = 1
        /\ UNCHANGED <<proc, stubborn, started, processes, gate, cur, attempt>>
  /\ UNCHANGED <<script, exitCode, serving, foreign, lastProbe, stopped,
                 signals, deadStop, teardown, noCleanup, sigterm, run,
                 auxVars, buildVars>>

\* start_server, first loop: poll() check, probe of the MCP endpoint,
\* sleep(1).
EdgePollMcp ==
  /\ script = "edge" /\ pc = "gate" /\ cur = 1
  /\ ~BudgetSpent("edge", 1, attempt)
  /\ IF proc[1] = "exited"
     THEN /\ gate' = [gate EXCEPT ![1] = "Died"]
          /\ pc' = "finally" /\ ret' = 1
          /\ UNCHANGED <<cur, attempt, lastProbe>>
     ELSE \E o \in ProbeOutcomes :
            /\ CanProbe(1, o)
            /\ lastProbe' = [lastProbe EXCEPT ![1] = o]
            /\ IF o = "ready"
               THEN /\ gate' = [gate EXCEPT ![1] = "Ready", ![2] = "polling"]
                    /\ cur' = 2 /\ attempt' = 0
                    /\ UNCHANGED <<pc, ret>>
               ELSE /\ attempt' = attempt + 1
                    /\ UNCHANGED <<gate, pc, cur, ret>>
  /\ UNCHANGED <<script, exitCode, proc, stubborn, serving, foreign,
                 processes, started, stopped, signals, deadStop, teardown,
                 noCleanup, sigterm, run, auxVars, buildVars>>

\* start_server, second loop: probe of the JWKS endpoint, sleep(1); no
\* check of the process.
EdgePollJwks ==
  /\ script = "edge" /\ pc = "gate" /\ cur = 2
  /\ ~BudgetSpent("edge", 2, attempt)
  /\ \E o \in ProbeOutcomes :
       /\ CanProbe(2, o)
       /\ lastProbe' = [lastProbe EXCEPT ![2] = o]
       /\ IF o = "ready"
          THEN /\ gate' = [gate EXCEPT ![2] = "Ready"]
               /\ pc' = "tests"
               /\ UNCHANGED attempt
          ELSE /\ attempt' = attempt + 1
               /\ UNCHANGED <<gate, pc>>
  /\ UNCHANGED <<script, ret, exitCode, cur, proc, stubborn, serving, foreign,
                 processes, started, stopped, signals, deadStop, teardown,
                 noCleanup, sigterm, run, auxVars, buildVars>>

\* start_server: either loop ran out, return False.
EdgeGateTimeout ==
  /\ script = "edge" /\ pc = "gate"
  /\ BudgetSpent("edge", cur, attempt)
  /\ gate' = [gate EXCEPT ![cur] = "Timeout"]
  /\ pc' = "finally" /\ ret' = 1
  /\ UNCHANGED <<script, exitCode, cur, attempt, proc, stubborn, serving,
                 foreign, processes, lastProbe, started, stopped, signals,
                 deadStop, teardown, noCleanup, sigterm, run,
                 auxVars, buildVars>>

\* run_all_edge_case_tests: every test is run; success is tests_failed == 0.
EdgeTests ==
  /\ script = "edge" /\ pc = "tests"
  /\ ret' \in {0, 1}
  /\ testsRun' = TRUE
  /\ pc' = "finally"
  /\ UNCHANGED <<script, exitCode, cur, attempt, proc, stubborn, serving,
                 foreign, processes, gate, lastProbe, started, stopped,
                 signals, deadStop, teardown, noCleanup, sigterm, run, auxVars,
                 buildResult>>

\* KeyboardInterrupt is caught nowhere: it unwinds into the finally of main.
EdgeInterrupt ==
  /\ script = "edge"
  /\ pc \in {"start", "build", "spawn", "gate", "tests"}
  /\ ret' = 1
  /\ pc' = "finally"
  /\ UNCHANGED <<script, exitCode, cur, attempt, proc, stubborn, serving,
                 foreign, processes, gate, lastProbe, started, stopped,
                 signals, deadStop, teardown, noCleanup, sigterm, run,
                 auxVars, buildVars>>

\* main: finally: test_suite.cleanup(); then sys.exit(main())
EdgeFinally ==
  /\ script = "edge" /\ pc = "finally"
  /\ \E fdies \in BOOLEAN : SetStopState(EdgeCleanup(StopState, fdies))
  /\ teardown' = TRUE
  /\ exitCode' = ret
  /\ pc' = "exited"
  /\ UNCHANGED <<script, ret, cur, attempt, stubborn, gate, lastProbe,
                 started, noCleanup, sigterm, run, auxVars, buildVars>>

EdgeNext ==
  \/ EdgeStartCleanup \/ EdgeBuild \/ EdgeSpawn \/ EdgePollMcp
  \/ EdgePollJwks \/ EdgeGateTimeout \/ EdgeTests \/ EdgeInterrupt
  \/ EdgeFinally

----------------------------------------------------------------------------
\* Runner entry points.
\*   "run_comprehensive"     http-apikey-client-integration/tests/
\*                           run_comprehensive_tests.py
\*   "oauth2_comprehensive"  oauth2-integration/tests/
\*                           test_oauth2_comprehensive.py
\*   "run_tests"             http-oauth2-server-integration/tests/run_tests.py

Runners == {"run_comprehensive", "oauth2_comprehensive", "run_tests"}

\* Number of suites (or steps) a selection makes the runner go through.
NumSuites(runner, sel) ==
  CASE runner = "run_comprehensive" ->
         (CASE sel = "mock" -> 4 [] sel = "production" -> 1
            [] sel = "stress" -> 1 [] sel = "all" -> 6)
    [] runner = "oauth2_comprehensive" -> 8
    [] runner = "run_tests" -> (IF sel = "all" THEN 6 ELSE 1)

Selections(runner) ==
  CASE runner = "run_comprehensive" -> {"mock", "production", "stress", "all"}
    [] runner = "oauth2_comprehensive" -> {"all"}
    [] runner = "run_tests" -> {"basic", "all"}

\* Every selected suite was run and every one of them passed.
AllPassed ==
  /\ Len(run.outcomes) = NumSuites(run.runner, run.sel)
  /\ \A i \in 1..Len(run.outcomes) : run.outcomes[i] = "pass"

AllTrue(rs) == \A i \in 1..Len(rs) : rs[i]

InitRunner ==
  /\ script = "runner"
  /\ pc = "start"
  /\ foreign = FALSE
  /\ noCleanup = FALSE
  /\ \E r \in Runners : \E sel \in Selections(r) :
       run = [NoRun EXCEPT !.runner = r, !.sel = sel, !.idx = 1]
  /\ tester = NoTester
  /\ wire = NoWire
  /\ matrix = NoMatrix
  /\ trial = NoTrial
  /\ ports = NoPorts
  /\ stdio = NoStdio
  /\ client = NoClient
  /\ mint = NoMint
  /\ InitEnv

lifeVars == <<script, ret, cur, attempt, proc, stubborn, serving, foreign,
              processes, gate, lastProbe, started, stopped, signals,
              deadStop, teardown, noCleanup, sigterm, buildResult,
              testsRun, auxVars>>

\* TestRunner.generate_report: its return value.
GenerateReport(results) == IF AllTrue(results) THEN 0 ELSE 1

\* TestRunner.run_all_tests: calls generate_report() as a statement and falls
\* off its end, so the caller gets None.
RunAllTestsResult(results) == "None"

\* sys.exit(arg): None means exit code 0.
SysExit(arg) == IF arg = "None" THEN 0 ELSE arg

\* main: setup_environment(): sys.exit(1) when the virtual environment is
\* missing.
RcSetup ==
  /\ run.runner = "run_comprehensive" /\ pc = "start"
  /\ \/ pc' = "suites" /\ UNCHANGED exitCode
     \/ pc' = "exited" /\ exitCode' = 1
  /\ UNCHANGED <<lifeVars, run>>

\* run_all_tests: one configuration: skipped when its file is missing, else
\* run_test_suite (passed = returncode == 0); an exception is recorded as a
\* failed suite.
RcSuite ==
  /\ run.runner = "run_comprehensive" /\ pc = "suites"
  /\ run.idx <= NumSuites(run.runner, run.sel)
  /\ \E o \in {"skip", "pass", "fail", "exc"} :
       run' = [run EXCEPT !.idx = @ + 1,
                          !.outcomes = Append(@, o),
                          !.results = IF o = "skip" THEN @
                                      ELSE Append(@, o = "pass")]
  /\ UNCHANGED <<lifeVars, pc, exitCode>>

\* run_all_tests: generate_report() (which divides by the number of results),
\* then main: sys.exit(exit_code).
RcReport ==
  /\ run.runner = "run_comprehensive" /\ pc = "suites"
  /\ run.idx > NumSuites(run.runner, run.sel)
  /\ IF run.results = <<>>
     THEN exitCode' = 1 /\ UNCHANGED run
     ELSE /\ run' = [run EXCEPT !.returned = RunAllTestsResult(run.results)]
          /\ exitCode' = SysExit(RunAllTestsResult(run.results))
  /\ pc' = "exited"
  /\ UNCHANGED lifeVars

\* run_comprehensive_tests: one step; it returns True, or records a failed
\* result and returns False, or is left by KeyboardInterrupt or another
\* exception, which the except clauses turn into return False.
OcStep ==
  /\ run.runner = "oauth2_comprehensive" /\ pc = "start"
  /\ run.idx <= NumSuites(run.runner, run.sel)
  /\ \E o \in {"pass", "fail", "raise"} :
       /\ run' = [run EXCEPT !.idx = @ + 1,
                             !.outcomes = Append(@, o),
                             !.results = IF o = "raise" THEN @
                                         ELSE Append(@, o = "pass"),
                             !.returned = IF o = "pass" THEN @ ELSE "False"]
       /\ pc' = IF o = "pass" THEN "start" ELSE "summary"
  /\ UNCHANGED <<lifeVars, exitCode>>

\* run_comprehensive_tests: return True after the last step.
OcDone ==
  /\ run.runner = "oauth2_comprehensive" /\ pc = "start"
  /\ run.idx > NumSuites(run.runner, run.sel)
  /\ run' = [run EXCEPT !.returned = "True"]
  /\ pc' = "summary"
  /\ UNCHANGED <<lifeVars, exitCode>>

\* print_summary: passed == total over the recorded results.
PrintSummary(results) == AllTrue(results)

\* main: final_success = print_summary(); sys.exit(0 if final_success else 1)
OcSummary ==
  /\ run.runner = "oauth2_comprehensive" /\ pc = "summary"
  /\ exitCode' = IF PrintSummary(run.results) THEN 0 ELSE 1
  /\ pc' = "exited"
  /\ UNCHANGED <<lifeVars, run>>

\* run_tests.py, run_test: False when the script is missing, when the child
\* exits non-zero, or on an exception.
RtSuite ==
  /\ run.runner = "run_tests" /\ pc = "start"
  /\ run.idx <= NumSuites(run.runner, run.sel)
  /\ \E o \in {"missing", "pass", "fail", "exc"} :
       run' = [run EXCEPT !.idx = @ + 1,
                          !.outcomes = Append(@, o),
                          !.results = Append(@, o = "pass")]
  /\ UNCHANGED <<lifeVars, pc, exitCode>>

\* run_tests.py, main: exit 0 when success_count == total_tests, else 1.
RtExit ==
  /\ run.runner = "run_tests" /\ pc = "start"
  /\ run.idx > NumSuites(run.runner, run.sel)
  /\ exitCode' = IF AllTrue(run.results) THEN 0 ELSE 1
  /\ pc' = "exited"
  /\ UNCHANGED <<lifeVars, run>>

NextRunner ==
  \/ RcSetup \/ RcSuite \/ RcReport
  \/ OcStep \/ OcDone \/ OcSummary
  \/ RtSuite \/ RtExit

SpecRunner == InitRunner /\ [][NextRunner]_vars

----------------------------------------------------------------------------
Next ==
  \/ \E h \in Handles : BecomeServing(h)
  \/ \E h \in Handles : Crash(h)
  \/ FlowNext
  \/ IntegNext
  \/ StressNext
  \/ AuthNext
  \/ EdgeNext

Spec == Init /\ [][Next]_vars

----------------------------------------------------------------------------
\* The PKCE flow driver: oauth2-integration/tests/
\* test_oauth2_authorization_flow.py (tester.driver = "tester") and
\* debug_oauth2_flow.py (tester.driver = "debug").
\*
\* Bytes are numbers 0..255; a base64 character is its index 0..63 in the
\* URL-safe alphabet A-Z a-z 0-9 - _, and Pad stands for '='.

\* Length of the random token of a verifier (secrets.token_bytes(32)); 2 has
\* the residue of 32 modulo 3, so the encoding ends in one '='.
TokenLen == 2

\* Length of a digest (32 bytes for SHA-256), scaled like TokenLen.
DigestLen == 2

\* Byte values the random token is drawn from.
TokenBytes == {0, 77, 251, 255}

Pad == 64

RECURSIVE SeqsOf(_, _)
SeqsOf(S, n) ==
  IF n = 0 THEN {<<>>}
  ELSE {Append(q, x) : q \in SeqsOf(S, n - 1), x \in S}

RECURSIVE Pow2(_)
Pow2(n) == IF n = 0 THEN 1 ELSE 2 * Pow2(n - 1)

\* base64.urlsafe_b64encode(bytes): three bytes make four characters; a last
\* group of one byte makes two characters and "==", of two bytes three
\* characters and "=".
RECURSIVE UrlsafeB64Encode(_)
UrlsafeB64Encode(bs) ==
  IF Len(bs) = 0 THEN <<>>
  ELSE IF Len(bs) = 1
  THEN <<bs[1] \div 4, (bs[1] % 4) * 16, Pad, Pad>>
  ELSE IF Len(bs) = 2
  THEN <<bs[1] \div 4, (bs[1] % 4) * 16 + bs[2] \div 16,
         (bs[2] % 16) * 4, Pad>>
  ELSE <<bs[1] \div 4, (bs[1] % 4) * 16 + bs[2] \div 16,
         (bs[2] % 16) * 4 + bs[3] \div 64, bs[3] % 64>>
         \o UrlsafeB64Encode(SubSeq(bs, 4, Len(bs)))

\* str.rstrip left as it is: the padding stays.
RStripNothing(cs) == cs

\* str.rstrip('='): the trailing '=' characters are removed.
RECURSIVE RStripPad(_)
RStripPad(cs) ==
  IF Len(cs) > 0 /\ cs[Len(cs)] = Pad
  THEN RStripPad(SubSeq(cs, 1, Len(cs) - 1))
  ELSE cs

\* str.encode('utf-8') of a string of base64 characters: one ASCII byte each.
Ascii(c) ==
  IF c < 26 THEN 65 + c
  ELSE IF c < 52 THEN 97 + (c - 26)
  ELSE IF c < 62 THEN 48 + (c - 52)
  ELSE IF c = 62 THEN 45
  ELSE IF c = 63 THEN 95
  ELSE 61

EncodeUtf8(cs) == [i \in 1..Len(cs) |-> Ascii(cs[i])]

\* hashlib.sha256(msg).digest() is library code; it is stood for by a
\* deterministic digest of DigestLen bytes that depends on every byte of the
\* message and on its position.
RECURSIVE Mix(_, _, _)
Mix(msg, k, acc) ==
  IF Len(msg) = 0 THEN acc
  ELSE Mix(Tail(msg), k, (acc * 31 + Head(msg) + k) % 256)

Sha256Digest(msg) == [k \in 1..DigestLen |-> Mix(msg, k, 7 * k)]

\* The challenge expression of generate_pkce_challenge:
\* urlsafe_b64encode(sha256(verifier.encode('utf-8')).digest())
\*   .decode('utf-8').rstrip('=')
CodeChallenge(verifier) ==
  RStripPad(UrlsafeB64Encode(Sha256Digest(EncodeUtf8(verifier))))

\* generate_pkce_challenge, given the bytes secrets.token_bytes returned.
GeneratePkceChallenge(token) ==
  LET verifier == RStripPad(UrlsafeB64Encode(token))
  IN [verifier |-> verifier, challenge |-> CodeChallenge(verifier),
      method |-> "S256"]

\* Unpadded base64url as RFC 7636 defines it: the bits of the bytes, most
\* significant first, cut into groups of six and filled up with zero bits.
BitOf(bs, i) ==
  IF i \div 8 + 1 > Len(bs) THEN 0
  ELSE (bs[i \div 8 + 1] \div Pow2(7 - (i % 8))) % 2

Sextet(bs, k) ==
  BitOf(bs, 6 * k) * 32 + BitOf(bs, 6 * k + 1) * 16 + BitOf(bs, 6 * k + 2) * 8
    + BitOf(bs, 6 * k + 3) * 4 + BitOf(bs, 6 * k + 4) * 2 + BitOf(bs, 6 * k + 5)

Base64UrlNoPad(bs) ==
  [k \in 1..((8 * Len(bs) + 5) \div 6) |-> Sextet(bs, k - 1)]

\* Values of the state parameter (secrets.token_urlsafe(32)).
States == {"s1", "s2"}

\* What the authorization server can answer to GET /authorize.  `status` 302
\* stands for the redirects (302, 303), 400 for every other status; for a
\* redirect, `location_ok` says that Location starts with redirect_uri, and
\* code, error and state are its query parameters ("" and "absent": not
\* there).  For a 200, consent says that the body is a human consent page,
\* words that it contains "authorization" or "consent", json that it parses
\* as JSON, and code and state are fields of that JSON.
NoResponse ==
  [kind |-> "response", status |-> 400, location_ok |-> FALSE, code |-> "",
   error |-> FALSE, state |-> "absent", consent |-> FALSE, words |-> FALSE,
   json |-> FALSE]

AuthorizeResponses ==
  {[NoResponse EXCEPT !.kind = "exception"], NoResponse}
  \cup {[NoResponse EXCEPT !.status = 302, !.location_ok = l, !.code = c,
                           !.error = e, !.state = st] :
          l \in BOOLEAN, c \in {"", "c1"}, e \in BOOLEAN,
          st \in States \cup {"absent"}}
  \cup {r \in {[NoResponse EXCEPT !.status = 200, !.consent = k, !.words = w,
                                  !.json = j, !.code = c, !.state = st] :
                 k \in BOOLEAN, w \in BOOLEAN, j \in BOOLEAN,
                 c \in {"", "c1"}, st \in States \cup {"absent"}} :
          /\ r.consent => ~r.json
          /\ ~r.json => (r.code = "" /\ r.state = "absent")}

\* The outcome of a step: what add_result records and what the step leaves
\* in self.authorization_code.
StepResult(passed, code, message) ==
  [passed |-> passed, authorization_code |-> code, message |-> message]

\* test_authorize_endpoint after the request, with `state` the value sent and
\* `old` the authorization code held before.
TestAuthorizeEndpoint(state, r, old) ==
  IF r.kind = "exception" THEN StepResult(FALSE, old, "Error")
  ELSE IF r.status = 302
  THEN IF r.location_ok
       THEN IF r.code # ""
            THEN IF r.state # state
                 THEN StepResult(FALSE, r.code, "State parameter mismatch")
                 ELSE StepResult(TRUE, r.code, "Authorization code generated")
            ELSE IF r.error
            THEN StepResult(FALSE, old, "OAuth2 error")
            ELSE StepResult(FALSE, old, "No authorization code or error")
       ELSE StepResult(FALSE, old, "Unexpected redirect location")
  ELSE IF r.status = 200
  THEN IF r.words
       THEN StepResult(FALSE, old, "User consent form returned")
       ELSE IF r.json /\ r.code # ""
       THEN StepResult(TRUE, r.code, "Authorization code in response body")
       ELSE StepResult(FALSE, old, "Unexpected response format")
  ELSE StepResult(FALSE, old, "Unexpected HTTP status")

\* An authorize step that takes every 200 as an approval.
DebugTestAuthorizeAny200(r) ==
  IF r.kind # "exception" /\ r.status \in {200, 302}
  THEN StepResult(TRUE, "c1", "Authorization code")
  ELSE StepResult(FALSE, "", "Unexpected status")

\* test_authorize of debug_oauth2_flow.py: the code parameter of a redirect,
\* whatever its location and state; anything else gives (None, None).
DebugTestAuthorize(r) ==
  IF r.kind = "exception" THEN StepResult(FALSE, "", "Authorization error")
  ELSE IF r.status = 302
  THEN IF r.code # ""
       THEN StepResult(TRUE, r.code, "Authorization code")
       ELSE StepResult(FALSE, "", "No authorization code in redirect")
  ELSE StepResult(FALSE, "", "Unexpected status")

\* What the token endpoint can answer to POST /token.  `status` 500 stands
\* for every status other than 200 and 400; json says that the body parses
\* as a JSON object, and the other fields are the members of that object
\* ("absent": not there; error: an "error" member is there).
NoTokenResponse ==
  [kind |-> "response", status |-> 500, json |-> FALSE,
   access_token |-> "absent", token_type |-> "absent",
   expires_in |-> "absent", error |-> FALSE]

\* Values of the expires_in member: not there, a positive integer, zero, a
\* negative integer, and a value that is not an integer.
ExpiresIn == {"absent", "3600", "0", "-1", "soon"}

\* expires_in is an integer greater than zero.
PositiveInteger(x) == x = "3600"

TokenResponses ==
  {[NoTokenResponse EXCEPT !.kind = "exception"]}
  \cup {[NoTokenResponse EXCEPT !.status = st, !.json = j, !.error = e] :
          st \in {400, 500}, j \in BOOLEAN, e \in BOOLEAN}
  \cup {[NoTokenResponse EXCEPT !.status = 200]}
  \cup {[NoTokenResponse EXCEPT !.status = 200, !.json = TRUE,
                                !.access_token = a, !.token_type = t,
                                !.expires_in = x] :
          a \in {"absent", "opaque", "a.b.c"},
          t \in {"absent", "bearer", "Bearer", "mac"},
          x \in ExpiresIn}

\* str.lower() on the token types of TokenResponses.
Lower(t) == IF t = "Bearer" THEN "bearer" ELSE t

\* access_token.count('.') == 2
IsJwtShaped(a) == a = "a.b.c"

\* The outcome of a token exchange: what add_result records and what
\* the step leaves in self.access_token.
TokenResult(passed, token, message) ==
  [passed |-> passed, access_token |-> token, message |-> message]

\* test_token_endpoint after the request, `old` being self.access_token.
TestTokenEndpoint(r, old) ==
  IF r.kind = "exception" THEN TokenResult(FALSE, old, "Error")
  ELSE IF r.status # 200 THEN TokenResult(FALSE, old, "HTTP status")
  ELSE IF ~r.json THEN TokenResult(FALSE, old, "Error")
  ELSE IF r.access_token = "absent" \/ r.token_type = "absent"
            \/ r.expires_in = "absent"
  THEN TokenResult(FALSE, old, "Missing required field")
  ELSE IF Lower(r.token_type) # "bearer"
  THEN TokenResult(FALSE, old, "Unexpected token type")
  ELSE IF ~IsJwtShaped(r.access_token)
  THEN TokenResult(FALSE, r.access_token, "Access token is not a valid JWT")
  ELSE TokenResult(TRUE, r.access_token, "Access token received")

\* test_token_exchange of debug_oauth2_flow.py: token_data.get("access_token")
\* of a 200 response, None otherwise.
DebugTestTokenExchange(r) ==
  IF r.kind = "exception" \/ r.status # 200 \/ ~r.json
       \/ r.access_token = "absent"
  THEN TokenResult(FALSE, "", "Token error")
  ELSE TokenResult(TRUE, r.access_token, "Token response")

\* test_invalid_authorization_code and test_invalid_pkce_verifier after the
\* request: a 200 fails the case, every other status passes it.
TestInvalidExchange(r) ==
  IF r.kind = "exception" THEN [passed |-> FALSE, message |-> "Error"]
  ELSE IF r.status = 200
  THEN [passed |-> FALSE, message |-> "Server accepted"]
  ELSE IF r.status = 400 /\ r.json /\ r.error
  THEN [passed |-> TRUE, message |-> "Properly rejected"]
  ELSE [passed |-> TRUE, message |-> "Rejected with HTTP status"]

Drivers == {"tester", "debug"}

InitFlow ==
  /\ script = "pkce_flow"
  /\ pc = "discovery"
  /\ foreign = FALSE
  /\ noCleanup = FALSE
  /\ run = NoRun
  /\ \E d \in Drivers : tester = [NoTester EXCEPT !.driver = d]
  /\ wire = NoWire
  /\ matrix = NoMatrix
  /\ trial = NoTrial
  /\ ports = NoPorts
  /\ stdio = NoStdio
  /\ client = NoClient
  /\ mint = NoMint
  /\ InitEnv

flowFrame == <<script, ret, exitCode, cur, attempt, proc, stubborn, serving,
               foreign, processes, gate, lastProbe, started, stopped,
               signals, deadStop, teardown, noCleanup, sigterm, run,
               matrix, trial, ports, stdio, buildVars,
   client, mint>>

\* The codes redeemed once the token endpoint has answered r to an exchange
\* of `code`: a 200 is the server's word that it exchanged the code.
Redeem(redeemed, code, r) ==
  IF r.kind = "response" /\ r.status = 200 THEN redeemed \cup {code}
  ELSE redeemed

\* add_result(name, passed, message) (what the debug script prints).
AddResult(t, name, passed, message) ==
  [t EXCEPT !.results =
     Append(@, [name |-> name, passed |-> passed, message |-> message])]

\* Where the driver goes after a step: run_all_tests returns False at the
\* first step that failed; main of the debug script calls every step.
AfterStep(d, passed, next) ==
  IF d = "tester" /\ ~passed THEN "done" ELSE next

\* test_oauth2_discovery / test_discovery.  With no discovery data the debug
\* script's test_authorize returns a bare None, which main cannot unpack.
PfDiscovery ==
  /\ script = "pkce_flow" /\ pc = "discovery"
  /\ \E ok \in BOOLEAN :
       /\ tester' = AddResult(tester, "discovery", ok, "")
       /\ pc' = IF tester.driver = "debug" /\ ~ok THEN "crashed"
                ELSE AfterStep(tester.driver, ok, "authorize")
  /\ UNCHANGED <<wire, flowFrame>>

\* test_authorize_endpoint / test_authorize: a fresh PKCE pair and state,
\* the request, and the handling of the response.
PfAuthorize ==
  /\ script = "pkce_flow" /\ pc = "authorize"
  /\ \E token \in SeqsOf(TokenBytes, TokenLen),
        st \in (IF tester.driver = "tester" THEN States ELSE {"s1"}),
        r \in AuthorizeResponses :
       LET pk == GeneratePkceChallenge(token)
           res == IF tester.driver = "tester"
                  THEN TestAuthorizeEndpoint(st, r, tester.authorization_code)
                  ELSE DebugTestAuthorize(r)
       IN /\ tester' =
               AddResult([tester EXCEPT
                            !.pkce = IF tester.driver = "tester" \/ res.passed
                                     THEN pk ELSE <<>>,
                            !.authorization_code = res.authorization_code],
                         "authorize", res.passed, res.message)
          /\ wire' = [sent |-> [kind |-> "authorize", state |-> st,
                                challenge |-> pk.challenge],
                      response |-> r, redeemed |-> wire.redeemed]
          /\ pc' = AfterStep(tester.driver, res.passed, "token")
  /\ UNCHANGED flowFrame

\* test_token_endpoint / test_token_exchange: without an authorization code
\* (or PKCE pair) no request is made and the step fails.
PfToken ==
  /\ script = "pkce_flow" /\ pc = "token"
  /\ IF tester.authorization_code = "" \/ tester.pkce = <<>>
     THEN /\ tester' = AddResult(tester, "token", FALSE,
                                 "No authorization code available")
          /\ pc' = AfterStep(tester.driver, FALSE, "mcp")
          /\ UNCHANGED wire
     ELSE \E r \in TokenResponses :
            LET res == IF tester.driver = "tester"
                       THEN TestTokenEndpoint(r, tester.access_token)
                       ELSE DebugTestTokenExchange(r)
            IN /\ tester' =
                    AddResult([tester EXCEPT !.access_token = res.access_token],
                              "token", res.passed, res.message)
               /\ wire' = [sent |-> [kind |-> "token",
                                     code |-> tester.authorization_code,
                                     verifier |-> tester.pkce.verifier],
                           response |-> r,
                           redeemed |-> Redeem(wire.redeemed,
                                               tester.authorization_code, r)]
               /\ pc' = AfterStep(tester.driver, res.passed, "mcp")
  /\ UNCHANGED flowFrame

\* test_mcp_with_oauth2_token / test_mcp_with_token; the debug script ends
\* after it.
PfMcp ==
  /\ script = "pkce_flow" /\ pc = "mcp"
  /\ \E ok \in BOOLEAN :
       /\ tester' = AddResult(tester, "mcp", ok, "")
       /\ pc' = IF tester.driver = "debug" THEN "done"
                ELSE AfterStep(tester.driver, ok, "invalid_code")
  /\ UNCHANGED <<wire, flowFrame>>

\* test_invalid_authorization_code: a made-up code with the real verifier.
PfInvalidCode ==
  /\ script = "pkce_flow" /\ pc = "invalid_code"
  /\ IF tester.pkce = <<>>
     THEN /\ tester' = AddResult(tester, "invalid_code", FALSE,
                                 "No PKCE verifier available")
          /\ pc' = "done"
          /\ UNCHANGED wire
     ELSE \E r \in TokenResponses :
            LET res == TestInvalidExchange(r)
            IN /\ tester' = AddResult(tester, "invalid_code", res.passed,
                                      res.message)
               /\ wire' = [sent |-> [kind |-> "token", code |-> "invalid",
                                     verifier |-> tester.pkce.verifier],
                           response |-> r,
                           redeemed |-> Redeem(wire.redeemed, "invalid", r)]
               /\ pc' = AfterStep(tester.driver, res.passed,
                                  "invalid_verifier")
  /\ UNCHANGED flowFrame

\* test_invalid_pkce_verifier: the real code with a made-up verifier.
PfInvalidVerifier ==
  /\ script = "pkce_flow" /\ pc = "invalid_verifier"
  /\ IF tester.authorization_code = ""
     THEN /\ tester' = AddResult(tester, "invalid_verifier", FALSE,
                                 "No authorization code available")
          /\ UNCHANGED wire
     ELSE \E r \in TokenResponses :
            LET res == TestInvalidExchange(r)
            IN /\ tester' = AddResult(tester, "invalid_verifier", res.passed,
                                      res.message)
               /\ wire' = [sent |-> [kind |-> "token",
                                     code |-> tester.authorization_code,
                                     verifier |-> <<"invalid">>],
                           response |-> r,
                           redeemed |-> Redeem(wire.redeemed,
                                               tester.authorization_code, r)]
  /\ pc' = "done"
  /\ UNCHANGED flowFrame

NextFlow ==
  \/ PfDiscovery
  \/ PfAuthorize
  \/ PfToken
  \/ PfMcp
  \/ PfInvalidCode
  \/ PfInvalidVerifier

SpecFlow == InitFlow /\ [][NextFlow]_vars

\* The last step recorded.
LastResult == tester.results[Len(tester.results)]

\* The step `name` has just been recorded.
JustRan(name) == Len(tester.results) > 0 /\ LastResult.name = name

----------------------------------------------------------------------------
\* The conformance runners: run_test and the case loops of
\* http-oauth2-server-integration/tests/test_oauth2_edge_cases.py
\* (matrix.runner = "edge") and of stdio-server-integration/tests/
\* test_stdio_comprehensive.py (matrix.runner = "stdio").

\* Cases of the edge-case matrix, in the order of run_all_edge_case_tests.
\* transport: the case sends oversized or malformed input that the transport
\* may refuse; on_exception: what the except clause of the case returns.
EdgeCases ==
  << [name |-> "JWT Invalid Structure", transport |-> TRUE,
      on_exception |-> TRUE],
     [name |-> "JWT Expired Token", transport |-> FALSE,
      on_exception |-> FALSE],
     [name |-> "JWT Oversized Token", transport |-> TRUE,
      on_exception |-> FALSE],
     [name |-> "Oversized Authorization Header", transport |-> TRUE,
      on_exception |-> TRUE],
     [name |-> "Invalid Content Type", transport |-> FALSE,
      on_exception |-> TRUE],
     [name |-> "Oversized Request Body", transport |-> TRUE,
      on_exception |-> TRUE] >>

\* Cases of the stdio suite (run_comprehensive_tests); they use no network.
StdioCases ==
  << [name |-> "Ping Basic", transport |-> FALSE, on_exception |-> FALSE],
     [name |-> "Invalid JSON-RPC", transport |-> FALSE,
      on_exception |-> FALSE],
     [name |-> "Invalid Method", transport |-> FALSE, on_exception |-> FALSE],
     [name |-> "Performance Basic", transport |-> FALSE,
      on_exception |-> FALSE] >>

Cases(runner) == IF runner = "edge" THEN EdgeCases ELSE StdioCases

\* How a case can go: the server answers as the case expects ("ok") or not
\* ("bad"), the request ends in a connection-level exception inside the
\* try block of the case ("connerr"), or an exception leaves the case
\* function ("raise": a failed assert, an error before the try block).
CaseOutcomes(runner) ==
  IF runner = "edge" THEN {"ok", "bad", "connerr", "raise"}
  ELSE {"ok", "raise"}

\* What test_func() gives run_test: a value, or "raised".
CaseReturn(c, o) ==
  IF o = "raise" THEN "raised"
  ELSE IF o = "ok" THEN "True"
  ELSE IF o = "bad" THEN "False"
  ELSE IF c.on_exception THEN "True" ELSE "False"

\* run_test of the edge-case script: counters only.
EdgeRunTest(m, c, o) ==
  LET r == CaseReturn(c, o)
      verdict == r = "True"
  IN [m EXCEPT !.tests_run = @ + 1,
               !.tests_passed = IF verdict THEN @ + 1 ELSE @,
               !.tests_failed = IF verdict THEN @ ELSE @ + 1,
               !.verdicts = Append(@, verdict)]

\* run_test of the stdio suite: whatever the case returns is a pass, an
\* exception is a failure; both are appended to test_results with the
\* duration and the error text.  The suite keeps no counters of its own;
\* tests_passed stands for the local passed of run_comprehensive_tests.
StdioRunTest(m, c, o) ==
  LET verdict == CaseReturn(c, o) # "raised"
  IN [m EXCEPT !.test_results =
                 Append(@, [name |-> c.name, passed |-> verdict,
                            duration |-> "measured",
                            error |-> IF verdict THEN "None" ELSE "str(e)"]),
               !.tests_passed = IF verdict THEN @ + 1 ELSE @,
               !.verdicts = Append(@, verdict)]

InitMatrix ==
  /\ script = "matrix"
  /\ pc = "matrix"
  /\ foreign = FALSE
  /\ noCleanup = FALSE
  /\ run = NoRun
  /\ tester = NoTester
  /\ wire = NoWire
  /\ \E r \in {"edge", "stdio"} :
       matrix = [NoMatrix EXCEPT !.runner = r, !.idx = 1]
  /\ trial = NoTrial
  /\ ports = NoPorts
  /\ stdio = NoStdio
  /\ client = NoClient
  /\ mint = NoMint
  /\ InitEnv

matrixFrame == <<script, ret, cur, attempt, proc, stubborn, serving,
                 foreign, processes, gate, lastProbe, started, stopped,
                 signals, deadStop, teardown, noCleanup, sigterm, run,
                 tester, wire, trial, ports, stdio, buildVars,
   client, mint>>

\* One pass of a case loop: run_test(test_name, test_func).
MxRunTest ==
  /\ script = "matrix" /\ pc = "matrix"
  /\ matrix.idx <= Len(Cases(matrix.runner))
  /\ \E o \in CaseOutcomes(matrix.runner) :
       LET c == Cases(matrix.runner)[matrix.idx]
           m1 == [matrix EXCEPT !.executed = Append(@, c.name),
                                !.outcomes = Append(@, o)]
           m2 == IF matrix.runner = "edge" THEN EdgeRunTest(m1, c, o)
                 ELSE StdioRunTest(m1, c, o)
       IN /\ matrix' = [m2 EXCEPT !.idx = @ + 1]
          /\ pc' = "matrix"
  /\ UNCHANGED <<exitCode, matrixFrame>>

\* The loops are over.
MxLoopsDone ==
  /\ script = "matrix" /\ pc = "matrix"
  /\ matrix.idx > Len(Cases(matrix.runner))
  /\ pc' = "summary"
  /\ UNCHANGED <<exitCode, matrix, matrixFrame>>

\* The summary and the exit code: tests_failed == 0 / passed == len(tests).
MxSummary ==
  /\ script = "matrix" /\ pc = "summary"
  /\ exitCode' = IF matrix.runner = "edge"
                 THEN (IF matrix.tests_failed = 0 THEN 0 ELSE 1)
                 ELSE (IF matrix.tests_passed = Len(Cases("stdio"))
                       THEN 0 ELSE 1)
  /\ pc' = "exited"
  /\ UNCHANGED <<matrix, matrixFrame>>

\* KeyboardInterrupt while a case runs: it is no Exception, so run_test lets
\* it through and the script ends without running the cases left.
MxInterrupt ==
  /\ script = "matrix" /\ pc = "matrix"
  /\ matrix.idx <= Len(Cases(matrix.runner))
  /\ pc' = "interrupted"
  /\ exitCode' = 1
  /\ UNCHANGED <<matrix, matrixFrame>>

NextMatrix ==
  \/ MxRunTest
  \/ MxLoopsDone
  \/ MxSummary
  \/ MxInterrupt

SpecMatrix == InitMatrix /\ [][NextMatrix]_vars

\* The names of the first n cases of a runner.
FirstNames(runner, n) == [i \in 1..n |-> Cases(runner)[i].name]

----------------------------------------------------------------------------
\* Single conformance cases: what a case function makes of the answer it
\* gets.  trial.suite names the script, trial.case the case function and
\* trial.responses the answers to the requests the case sends, in order.

\* HTTP statuses the cases tell apart.
Statuses == {200, 400, 401, 413, 431, 500}

\* JSON-RPC error codes a body can carry.
Codes == {-32600, -32601, -32700}

\* An HTTP exchange ends in a response, in a connection-level exception
\* (refused, reset: the server is down or crashed) or in the request
\* timeout (the server hangs).  The body is no JSON ("text"), a JSON-RPC
\* result, or a JSON-RPC error with a code.
HttpResponses ==
  [kind : {"http"}, status : Statuses, body : {"text", "result"},
   code : {0}, envelope : {"ok"}]
  \cup [kind : {"http"}, status : Statuses, body : {"error"}, code : Codes,
        envelope : {"ok"}]
  \cup [kind : {"connerr", "timeout"}, status : {0}, body : {"text"},
        code : {0}, envelope : {"ok"}]

\* What send_request of the stdio suite can read from the server: nothing
\* (kind "none": exit code, empty output, timeout, no JSON) or one JSON
\* object whose envelope is right, has another jsonrpc version or another
\* id, with result, error, both or neither.
LineResponses ==
  [kind : {"line"}, status : {0}, body : {"result", "neither"}, code : {0},
   envelope : {"ok", "version", "id"}]
  \cup [kind : {"line"}, status : {0}, body : {"error", "both"},
        code : Codes, envelope : {"ok", "version", "id"}]
  \cup [kind : {"none"}, status : {0}, body : {"text"}, code : {0},
        envelope : {"ok"}]

Raised(r) == r.kind \in {"connerr", "timeout"}

\* The ten malformed-JWT cases of test_oauth2_edge_cases.py: the variant
\* sent, whether it is an oversized one, the statuses the case accepts and
\* what its except clause returns.
JwtCases ==
  { [name |-> "test_jwt_invalid_structure", oversized |-> FALSE,
     accept |-> {401}, on_exception |-> TRUE],
    [name |-> "test_jwt_invalid_header", oversized |-> FALSE,
     accept |-> {401}, on_exception |-> FALSE],
    [name |-> "test_jwt_invalid_payload", oversized |-> FALSE,
     accept |-> {401}, on_exception |-> FALSE],
    [name |-> "test_jwt_invalid_signature", oversized |-> FALSE,
     accept |-> {401}, on_exception |-> FALSE],
    [name |-> "test_jwt_expired_token", oversized |-> FALSE,
     accept |-> {401}, on_exception |-> FALSE],
    [name |-> "test_jwt_missing_required_claims", oversized |-> FALSE,
     accept |-> {401}, on_exception |-> FALSE],
    [name |-> "test_jwt_algorithm_none", oversized |-> FALSE,
     accept |-> {401}, on_exception |-> FALSE],
    [name |-> "test_jwt_oversized_token", oversized |-> TRUE,
     accept |-> {400, 401, 413}, on_exception |-> FALSE],
    [name |-> "test_jwt_wrong_audience", oversized |-> FALSE,
     accept |-> {401}, on_exception |-> FALSE],
    [name |-> "test_jwt_future_issued_at", oversized |-> FALSE,
     accept |-> {401}, on_exception |-> FALSE] }

JwtNames == {c.name : c \in JwtCases}

JwtCase(name) == CHOOSE c \in JwtCases : c.name = name

\* test_jwt_*: try: return response.status_code in accept
\* except Exception: return on_exception.
TestJwt(c, r) ==
  IF Raised(r) THEN c.on_exception ELSE r.status \in c.accept

\* test_oversized_authorization_header (32KB bearer token, timeout=5).
TestOversizedAuthorizationHeader(r) ==
  IF Raised(r) THEN TRUE ELSE r.status \in {400, 401, 413, 431}

\* test_missing_jsonrpc_version of test_jsonrpc_edge_cases.py;
\* response.json() of a body that is no JSON raises into the except.
TestMissingJsonrpcVersion(r) ==
  IF Raised(r) THEN FALSE
  ELSE IF r.status = 200
       THEN (IF r.body = "text" THEN FALSE
             ELSE r.body = "error" /\ r.code = -32600)
       ELSE r.status = 400

\* test_missing_method_field of test_jsonrpc_edge_cases.py.
TestMissingMethodField(r) ==
  IF Raised(r) THEN FALSE
  ELSE IF r.status = 200
       THEN (IF r.body = "text" THEN FALSE
             ELSE r.body = "error" /\ r.code = -32600)
       ELSE r.status = 400

\* test_missing_required_fields of test_stress_validation.py: two requests
\* (no method, no jsonrpc), each asserted on its status only; an exception
\* of requests.post fails the pytest case.
TestMissingRequiredFields(rs) ==
  \A i \in 1..Len(rs) : ~Raised(rs[i]) /\ rs[i].status \in {400, 500}

\* One pass of the loop of test_unknown_mcp_methods: TRUE is continue,
\* FALSE is return False.  The try block spans the whole pass, so a body
\* that is no JSON ends in the except clause, which continues.
UnknownMethodAccepted(r) ==
  IF Raised(r) THEN TRUE
  ELSE IF r.status = 200
       THEN (IF r.body = "text" THEN TRUE
             ELSE r.body = "error" /\ r.code \in {-32601, -32600})
       ELSE r.status \in {400, 401}

\* test_unknown_mcp_methods of test_jsonrpc_edge_cases.py.
TestUnknownMcpMethods(rs) ==
  \A i \in 1..Len(rs) : UnknownMethodAccepted(rs[i])

\* test_invalid_method of test_http_apikey_integration.py: the status is
\* asserted, the body is only printed.
ApikeyTestInvalidMethod(r) ==
  ~Raised(r) /\ r.status = 500

\* validate_json_rpc_response of test_stdio_integration.py.
ValidateJsonRpcResponse(r) ==
  /\ r.kind = "line"
  /\ r.envelope # "version"
  /\ r.envelope # "id"
  /\ r.body # "both"
  /\ r.body # "neither"

\* test_invalid_method of test_stdio_integration.py.
StdioTestInvalidMethod(r) ==
  IF r.kind = "none" THEN FALSE
  ELSE IF ~ValidateJsonRpcResponse(r) THEN FALSE
  ELSE IF r.body # "error" THEN FALSE
  ELSE r.code = -32601

\* The single cases by suite, and the requests each of them sends (the
\* loop of test_unknown_mcp_methods is cut to its first two methods).
HttpCases ==
  JwtNames \cup {"test_oversized_authorization_header",
                 "test_missing_jsonrpc_version", "test_missing_method_field",
                 "test_missing_required_fields", "test_unknown_mcp_methods",
                 "apikey_test_invalid_method"}

StdioCaseNames == {"stdio_test_invalid_method"}

UnknownMethods == 2

Requests(case) ==
  IF case = "test_missing_required_fields" THEN 2
  ELSE IF case = "test_unknown_mcp_methods" THEN UnknownMethods
  ELSE 1

\* The value the case function returns (for the pytest cases: whether no
\* assert failed).
CaseResult(case, rs) ==
  IF case \in JwtNames THEN TestJwt(JwtCase(case), rs[1])
  ELSE IF case = "test_oversized_authorization_header"
       THEN TestOversizedAuthorizationHeader(rs[1])
  ELSE IF case = "test_missing_jsonrpc_version"
       THEN TestMissingJsonrpcVersion(rs[1])
  ELSE IF case = "test_missing_method_field"
       THEN TestMissingMethodField(rs[1])
  ELSE IF case = "test_missing_required_fields"
       THEN TestMissingRequiredFields(rs)
  ELSE IF case = "test_unknown_mcp_methods"
       THEN TestUnknownMcpMethods(rs)
  ELSE IF case = "apikey_test_invalid_method"
       THEN ApikeyTestInvalidMethod(rs[1])
  ELSE StdioTestInvalidMethod(rs[1])

InitCase ==
  /\ script = "case"
  /\ pc = "case"
  /\ foreign = FALSE
  /\ noCleanup = FALSE
  /\ run = NoRun
  /\ tester = NoTester
  /\ wire = NoWire
  /\ matrix = NoMatrix
  /\ ports = NoPorts
  /\ stdio = NoStdio
  /\ \E case \in HttpCases \cup StdioCaseNames :
       \E rs \in SeqsOf(IF case \in HttpCases THEN HttpResponses
                        ELSE LineResponses, Requests(case)) :
         trial = [suite |-> IF case \in HttpCases THEN "http" ELSE "stdio",
                  case |-> case, responses |-> rs, verdict |-> "none"]
  /\ client = NoClient
  /\ mint = NoMint
  /\ InitEnv

caseFrame == <<script, ret, exitCode, cur, attempt, proc, stubborn, serving,
               foreign, processes, gate, lastProbe, started, stopped,
               signals, deadStop, teardown, noCleanup, sigterm, run,
               tester, wire, matrix, ports, stdio, buildVars,
   client, mint>>

\* The runner calls the case function and takes what it returns.
CaseRun ==
  /\ script = "case" /\ pc = "case"
  /\ trial' = [trial EXCEPT !.verdict =
                 IF CaseResult(trial.case, trial.responses)
                 THEN "PASS" ELSE "FAIL"]
  /\ pc' = "judged"
  /\ UNCHANGED caseFrame

NextCase == CaseRun

SpecCase == InitCase /\ [][NextCase]_vars

\* The single answer of a case that sends one request.
Answer == trial.responses[1]

Judged(case) == script = "case" /\ pc = "judged" /\ trial.case = case

----------------------------------------------------------------------------
\* Two suites started side by side that use the same port: each runs
\* start_all_servers / start_server / wait_for_server_health / stop_server of
\* ServerManager (test_oauth2_flow.py) for one service on that port.
\* ports.occupant is the process bound to the port: "free", "leftover" (a
\* process of an earlier run) or the suite whose service holds it.

PortSuites == {"A", "B"}

NewSupervisor == [pc |-> "start", proc |-> "none", gate |-> "none",
                  attempt |-> 0]

InitPorts ==
  /\ script = "ports"
  /\ pc = "ports"
  /\ foreign = FALSE
  /\ noCleanup = FALSE
  /\ run = NoRun
  /\ tester = NoTester
  /\ wire = NoWire
  /\ matrix = NoMatrix
  /\ trial = NoTrial
  /\ stdio = NoStdio
  /\ \E o \in {"free", "leftover"} :
       ports = [occupant |-> o, sup |-> [s \in PortSuites |-> NewSupervisor]]
  /\ client = NoClient
  /\ mint = NoMint
  /\ InitEnv

portsFrame == <<script, pc, ret, exitCode, cur, attempt, proc, stubborn,
                serving, foreign, processes, gate, lastProbe, started,
                stopped, signals, deadStop, teardown, noCleanup, sigterm,
                run, tester, wire, matrix, trial, stdio, buildVars,
   client, mint>>

\* The process of a suite is gone: it no longer holds the port.
ProcessGone(p, s) ==
  [p EXCEPT !.sup[s].proc = IF @ = "none" THEN "none" ELSE "exited",
            !.occupant = IF @ = s THEN "free" ELSE @]

\* kill_processes_on_ports: lsof -ti :port, then kill -9 of every pid
\* listed, whoever started it; the port is not looked at again.
PortsKill(p) ==
  IF p.occupant \in PortSuites THEN ProcessGone(p, p.occupant)
  ELSE [p EXCEPT !.occupant = "free"]

\* stop_server: terminate, wait, kill.
PortsStop(p, s) == ProcessGone(p, s)

\* start_all_servers: kill_processes_on_ports(...)
PtKillPorts(s) ==
  /\ script = "ports" /\ ports.sup[s].pc = "start"
  /\ ports' = [PortsKill(ports) EXCEPT !.sup[s].pc = "spawn"]
  /\ UNCHANGED portsFrame

\* start_server: subprocess.Popen(...), processes[name] = process.
PtSpawn(s) ==
  /\ script = "ports" /\ ports.sup[s].pc = "spawn"
  /\ ports' = [ports EXCEPT !.sup[s].pc = "gate",
                            !.sup[s].proc = "running",
                            !.sup[s].gate = "polling"]
  /\ UNCHANGED portsFrame

\* The spawned service binds the port, or exits when the port is taken.
PtBind(s) ==
  /\ script = "ports" /\ ports.sup[s].proc = "running"
  /\ ports' = IF ports.occupant = "free"
              THEN [ports EXCEPT !.occupant = s, !.sup[s].proc = "bound"]
              ELSE [ports EXCEPT !.sup[s].proc = "exited"]
  /\ UNCHANGED portsFrame

\* One pass of wait_for_server_health: GET /health on the port; 200 from
\* whatever listens there returns True; otherwise process.poll() decides
\* between Died and another pass.
PtProbe(s) ==
  /\ script = "ports" /\ ports.sup[s].pc = "gate"
  /\ ~BudgetSpent("flow", 1, ports.sup[s].attempt)
  /\ \/ /\ ports.occupant # "free"
        /\ ports' = [ports EXCEPT !.sup[s].gate = "Ready",
                                  !.sup[s].pc = "suite"]
     \/ /\ ports.sup[s].proc = "exited"
        /\ ports' = [PortsStop(ports, s) EXCEPT !.sup[s].gate = "Died",
                                                !.sup[s].pc = "failed"]
     \/ /\ ports.sup[s].proc # "exited"
        /\ ports' = [ports EXCEPT !.sup[s].attempt = @ + 1]
  /\ UNCHANGED portsFrame

\* wait_for_server_health returns False after the timeout; start_server
\* stops the server.
PtGateTimeout(s) ==
  /\ script = "ports" /\ ports.sup[s].pc = "gate"
  /\ BudgetSpent("flow", 1, ports.sup[s].attempt)
  /\ ports' = [PortsStop(ports, s) EXCEPT !.sup[s].gate = "Timeout",
                                          !.sup[s].pc = "failed"]
  /\ UNCHANGED portsFrame

\* The suite has run; stop_all_servers.
PtTeardown(s) ==
  /\ script = "ports" /\ ports.sup[s].pc = "suite"
  /\ ports' = [PortsStop(ports, s) EXCEPT !.sup[s].pc = "done"]
  /\ UNCHANGED portsFrame

NextPorts ==
  \E s \in PortSuites :
    \/ PtKillPorts(s)
    \/ PtSpawn(s)
    \/ PtBind(s)
    \/ PtProbe(s)
    \/ PtGateTimeout(s)
    \/ PtTeardown(s)

SpecPorts == InitPorts /\ [][NextPorts]_vars

\* Suite s has passed its gate and runs against the port, holding a handle
\* whose process lives.
HoldsLive(s) ==
  /\ ports.sup[s].pc = "suite"
  /\ ports.sup[s].gate = "Ready"
  /\ ports.sup[s].proc \in {"running", "bound"}

----------------------------------------------------------------------------
\* A stdio server and the transport tests of stdio-client-integration/tests/
\* test_transport.py that write JSON-RPC requests to its stdin and read its
\* stdout line by line.  The server itself (the stdio-mock-server binary) is
\* modelled from its specification.

\* Requests a test writes (3 in the compliance test, 5 in the concurrent).
StdioRequests == 3

StdioMethods == {"tools/list", "invalid/method"}

\* A server that answers errors with a null id.
ServerReplyNullIdOnError(req) ==
  IF req.method = "tools/list"
  THEN <<[jsonrpc |-> "2.0", id |-> req.id, result |-> TRUE,
          error |-> FALSE]>>
  ELSE <<[jsonrpc |-> "2.0", id |-> 0, result |-> FALSE, error |-> TRUE]>>

\* The lines the server writes for one request: one response with jsonrpc
\* "2.0", the id of the request, and a result or, for a method it does not
\* know, an error.
ServerReply(req) ==
  <<[jsonrpc |-> "2.0", id |-> req.id,
     result |-> req.method = "tools/list",
     error |-> req.method # "tools/list"]>>

\* The asserts of test_transport_json_protocol_compliance on one response.
ComplianceAsserts(request, response) ==
  /\ response.jsonrpc = "2.0"
  /\ response.id = request.id
  /\ (response.result \/ response.error)

\* The asserts of test_transport_concurrent_requests on what it collected.
ConcurrentAsserts(written, responses) ==
  /\ Len(responses) = Len(written)
  /\ \A i \in 1..Len(written) :
       \E j \in 1..Len(responses) : responses[j].id = written[i].id

\* Sequence s without its k-th element.
Without(s, k) == SubSeq(s, 1, k - 1) \o SubSeq(s, k + 1, Len(s))

InitStdio ==
  /\ script = "stdio"
  /\ pc = "stdio"
  /\ foreign = FALSE
  /\ noCleanup = FALSE
  /\ run = NoRun
  /\ tester = NoTester
  /\ wire = NoWire
  /\ matrix = NoMatrix
  /\ trial = NoTrial
  /\ ports = NoPorts
  /\ \E t \in {"compliance", "concurrent"} :
       stdio = [NoStdio EXCEPT !.test = t]
  /\ client = NoClient
  /\ mint = NoMint
  /\ InitEnv

stdioFrame == <<script, pc, ret, exitCode, cur, attempt, proc, stubborn,
                serving, foreign, processes, gate, lastProbe, started,
                stopped, signals, deadStop, teardown, noCleanup, sigterm,
                run, tester, wire, matrix, trial, ports, buildVars,
   client, mint>>

\* stdin.write(json.dumps(request) + "\n"); stdin.flush().  The compliance
\* test writes its next request after it has read the last response, the
\* concurrent test writes all of them first.
StWrite ==
  /\ script = "stdio" /\ stdio.verdict = "none"
  /\ Len(stdio.written) < StdioRequests
  /\ stdio.test = "compliance" => Len(stdio.responses) = Len(stdio.written)
  /\ \E m \in StdioMethods :
       LET request == [id |-> Len(stdio.written) + 1, method |-> m]
       IN stdio' = [stdio EXCEPT !.written = Append(@, request),
                                 !.inbox = Append(@, request)]
  /\ UNCHANGED stdioFrame

\* The server handles one of the requests it has received and writes its
\* answer to stdout.
StServe ==
  /\ script = "stdio"
  /\ \E k \in 1..Len(stdio.inbox) :
       stdio' = [stdio EXCEPT !.inbox = Without(@, k),
                              !.outbox = @ \o ServerReply(stdio.inbox[k])]
  /\ UNCHANGED stdioFrame

\* stdout.readline() and json.loads; the compliance test asserts on the
\* response at once.
StRead ==
  /\ script = "stdio" /\ stdio.verdict = "none"
  /\ stdio.outbox # <<>>
  /\ Len(stdio.responses) < Len(stdio.written)
  /\ stdio.test = "concurrent" => Len(stdio.written) = StdioRequests
  /\ LET response == Head(stdio.outbox)
         request == stdio.written[Len(stdio.responses) + 1]
     IN stdio' = [stdio EXCEPT
                    !.outbox = Tail(@),
                    !.responses = Append(@, response),
                    !.verdict =
                      IF stdio.test = "compliance"
                         /\ ~ComplianceAsserts(request, response)
                      THEN "FAIL" ELSE @]
  /\ UNCHANGED stdioFrame

\* The end of the test function.
StDone ==
  /\ script = "stdio" /\ stdio.verdict = "none"
  /\ Len(stdio.responses) = StdioRequests
  /\ stdio' = [stdio EXCEPT !.verdict =
                 IF stdio.test = "compliance"
                    \/ ConcurrentAsserts(stdio.written, stdio.responses)
                 THEN "PASS" ELSE "FAIL"]
  /\ UNCHANGED stdioFrame

NextStdio ==
  \/ StWrite
  \/ StServe
  \/ StRead
  \/ StDone

SpecStdio == InitStdio /\ [][NextStdio]_vars

\* Every response the server has written so far, read or not.
Written == stdio.responses \o stdio.outbox

\* How many of them carry the id.
ResponsesTo(id) == Cardinality({j \in 1..Len(Written) : Written[j].id = id})

----------------------------------------------------------------------------
\* oauth2-integration/tests/test_oauth2_integration.py: OAuth2MCPTester and
\* main().  One server process (handle 1) stands behind the three gated
\* endpoints; self.results is tester.results.

\* The test functions run_all_tests calls in order, and whether a function
\* can record a failed result and still return True.
OmTests ==
  << [name |-> "test_connectivity", lenient |-> TRUE],
     [name |-> "fetch_tokens", lenient |-> FALSE],
     [name |-> "test_proxy_vs_direct_access", lenient |-> TRUE],
     [name |-> "test_mcp_initialize", lenient |-> FALSE],
     [name |-> "test_scope_authorization", lenient |-> FALSE],
     [name |-> "test_tools_access", lenient |-> FALSE],
     [name |-> "test_prompts_access", lenient |-> FALSE] >>

\* The loops of wait_for_server: direct MCP, proxy, JWKS.
OmGates == 3

\* print_summary: passed = number of passed results, total = len(results);
\* returns passed == total.
OmPrintSummary(results) ==
  Cardinality({i \in 1..Len(results) : results[i].passed}) = Len(results)

InitSummary ==
  /\ script = "oauth_mcp"
  /\ pc = "start"
  /\ foreign = FALSE
  /\ noCleanup \in BOOLEAN
  /\ run = NoRun
  /\ tester = NoTester
  /\ wire = NoWire
  /\ matrix = NoMatrix
  /\ trial = NoTrial
  /\ ports = NoPorts
  /\ stdio = NoStdio
  /\ client = NoClient
  /\ mint = NoMint
  /\ InitEnv

omFrame == <<script, noCleanup, sigterm, run, wire, matrix, trial, ports,
             stdio, client, mint>>

\* run_all_tests: self.cleanup() before anything is started.
OmStartCleanup ==
  /\ script = "oauth_mcp" /\ pc = "start"
  /\ \E fdies \in BOOLEAN : SetStopState(AuthflowCleanup(StopState, fdies))
  /\ pc' = "build"
  /\ UNCHANGED <<ret, exitCode, cur, attempt, stubborn, gate, lastProbe,
                 started, teardown, tester, buildVars, omFrame>>

\* start_server: cargo build; on CalledProcessError return False.
OmBuild ==
  /\ script = "oauth_mcp" /\ pc = "build"
  /\ \/ buildResult' = "ok" /\ pc' = "spawn"
     \/ buildResult' = "failed" /\ pc' = "summary"
  /\ UNCHANGED <<ret, exitCode, cur, attempt, proc, stubborn, serving,
                 foreign, processes, gate, lastProbe, started, stopped,
                 signals, deadStop, teardown, tester, testsRun, omFrame>>

\* start_server: Popen, server_pid = pid; any exception returns False.
OmSpawn ==
  /\ script = "oauth_mcp" /\ pc = "spawn"
  /\ \/ /\ Spawn(1)
        /\ processes' = Append(processes, 1)
        /\ gate' = [gate EXCEPT ![1] = "polling"]
        /\ cur' = 1 /\ attempt' = 0
        /\ pc' = "gate"
     \/ /\ pc' = "summary"
        /\ UNCHANGED <<proc, stubborn, started, processes, gate, cur, attempt>>
  /\ UNCHANGED <<ret, exitCode, serving, foreign, lastProbe, stopped,
                 signals, deadStop, teardown, tester, buildVars, omFrame>>

\* One iteration of one of the loops of wait_for_server: probe, sleep(1).
OmPoll ==
  /\ script = "oauth_mcp" /\ pc = "gate"
  /\ ~BudgetSpent(script, cur, attempt)
  /\ \E o \in ProbeOutcomes :
       /\ CanProbe(cur, o)
       /\ lastProbe' = [lastProbe EXCEPT ![cur] = o]
       /\ IF o = "ready"
          THEN IF cur < OmGates
               THEN /\ gate' = [gate EXCEPT ![cur] = "Ready",
                                            ![cur + 1] = "polling"]
                    /\ cur' = cur + 1 /\ attempt' = 0
                    /\ UNCHANGED pc
               ELSE /\ gate' = [gate EXCEPT ![cur] = "Ready"]
                    /\ pc' = "tests" /\ cur' = 1
                    /\ UNCHANGED attempt
          ELSE /\ attempt' = attempt + 1
               /\ UNCHANGED <<gate, pc, cur>>
  /\ UNCHANGED <<ret, exitCode, proc, stubborn, serving, foreign, processes,
                 started, stopped, signals, deadStop, teardown, tester,
                 buildVars, omFrame>>

\* wait_for_server: the for loop ran out: add_result(..., False, ...) and
\* return False.
OmGateTimeout ==
  /\ script = "oauth_mcp" /\ pc = "gate"
  /\ BudgetSpent(script, cur, attempt)
  /\ gate' = [gate EXCEPT ![cur] = "Timeout"]
  /\ tester' = AddResult(tester, "wait_for_server", FALSE,
                         "Failed to start within timeout")
  /\ pc' = "summary"
  /\ UNCHANGED <<ret, exitCode, cur, attempt, proc, stubborn, serving,
                 foreign, processes, lastProbe, started, stopped, signals,
                 deadStop, teardown, buildVars, omFrame>>

\* run_all_tests: the next test function.  It records a passed result and
\* returns True, records a failed one and returns False, or (a lenient one)
\* records a failed one and returns True.
OmTest ==
  /\ script = "oauth_mcp" /\ pc = "tests"
  /\ \E o \in {"pass", "fail"} \cup
              (IF OmTests[cur].lenient THEN {"noted"} ELSE {}) :
       /\ tester' = AddResult(tester, OmTests[cur].name, o = "pass", o)
       /\ IF o = "fail" \/ cur = Len(OmTests)
          THEN pc' = "summary" /\ UNCHANGED cur
          ELSE cur' = cur + 1 /\ UNCHANGED pc
  /\ testsRun' = TRUE
  /\ UNCHANGED <<ret, exitCode, attempt, proc, stubborn, serving, foreign,
                 processes, gate, lastProbe, started, stopped, signals,
                 deadStop, teardown, buildResult, omFrame>>

\* run_all_tests: except KeyboardInterrupt: return False
OmInterrupt ==
  /\ script = "oauth_mcp"
  /\ pc \in {"start", "build", "spawn", "gate", "tests"}
  /\ pc' = "summary"
  /\ UNCHANGED <<ret, exitCode, cur, attempt, proc, stubborn, serving,
                 foreign, processes, gate, lastProbe, started, stopped,
                 signals, deadStop, teardown, tester, buildVars, omFrame>>

\* main: final_success = tester.print_summary(); the value run_all_tests
\* returned is not used.
OmSummary ==
  /\ script = "oauth_mcp" /\ pc = "summary"
  /\ ret' = IF OmPrintSummary(tester.results) THEN 0 ELSE 1
  /\ pc' = "cleanup"
  /\ UNCHANGED <<exitCode, cur, attempt, proc, stubborn, serving, foreign,
                 processes, gate, lastProbe, started, stopped, signals,
                 deadStop, teardown, tester, buildVars, omFrame>>

\* main: if not args.no_cleanup: tester.cleanup(); then
\* sys.exit(0 if final_success else 1)
OmExit ==
  /\ script = "oauth_mcp" /\ pc = "cleanup"
  /\ IF noCleanup
     THEN UNCHANGED <<proc, serving, foreign, processes, stopped, signals,
                      deadStop, teardown>>
     ELSE /\ \E fdies \in BOOLEAN :
               SetStopState(AuthflowCleanup(StopState, fdies))
          /\ teardown' = TRUE
  /\ exitCode' = ret
  /\ pc' = "exited"
  /\ UNCHANGED <<ret, cur, attempt, stubborn, gate, lastProbe, started,
                 tester, buildVars, omFrame>>

NextSummary ==
  \/ OmStartCleanup \/ OmBuild \/ OmSpawn \/ OmPoll \/ OmGateTimeout
  \/ OmTest \/ OmInterrupt \/ OmSummary \/ OmExit
  \/ BecomeServing(1) \/ Crash(1)

SpecSummary == InitSummary /\ [][NextSummary]_vars

----------------------------------------------------------------------------
\* simple-mcp-server/test_client.py: McpTestClient.run_tests against the
\* server it starts.  The test thread writes requests and takes responses
\* from response_queue; the reader thread moves the lines of the server's
\* stdout into that queue.  The server (the simple-mcp-server binary) is
\* modelled from its specification: it answers the requests in the order
\* it reads them, each with ServerReply.

\* Requests run_tests sends (8 in the script).
ClientRequests == 3

InitClient ==
  /\ script = "client"
  /\ pc = "client"
  /\ foreign = FALSE
  /\ noCleanup = FALSE
  /\ run = NoRun
  /\ tester = NoTester
  /\ wire = NoWire
  /\ matrix = NoMatrix
  /\ trial = NoTrial
  /\ ports = NoPorts
  /\ stdio = NoStdio
  /\ client = NoClient
  /\ mint = NoMint
  /\ InitEnv

clientFrame == <<script, pc, ret, exitCode, cur, attempt, proc, stubborn,
                 serving, foreign, processes, gate, lastProbe, started,
                 stopped, signals, deadStop, teardown, noCleanup, sigterm,
                 run, tester, wire, matrix, trial, ports, stdio, mint,
                 buildVars>>

\* start_server: Popen, running = True, the reader thread is started.
\* Popen raising takes run_tests to its finally clause.
McStartServer ==
  /\ script = "client" /\ client.pc = "none"
  /\ \/ \E b \in BOOLEAN :
          client' = [client EXCEPT !.pc = "idle", !.proc = "running",
                                   !.stubborn = b, !.running = TRUE]
     \/ client' = [client EXCEPT !.pc = "finally"]
  /\ UNCHANGED clientFrame

\* send_request up to the wait: stdin.write(json_str + "\n"), flush().
\* Writing to a server that has exited raises into run_tests.
McSendRequest ==
  /\ script = "client" /\ client.pc = "idle"
  /\ client.next < ClientRequests
  /\ IF client.proc # "running"
     THEN client' = [client EXCEPT !.pc = "finally"]
     ELSE \E m \in StdioMethods :
            client' = [client EXCEPT
                         !.next = @ + 1,
                         !.inbox = Append(@, [id |-> client.next + 1,
                                              method |-> m]),
                         !.pc = "waiting"]
  /\ UNCHANGED clientFrame

\* Where run_tests goes once send_request has returned: it gives up when
\* the first call returned None or an error, and otherwise goes on, whatever
\* was returned.
AfterCall(n, returned) ==
  IF n = 1 /\ (returned = <<>> \/ returned[1].error) THEN "finally"
  ELSE "idle"

\* send_request: response_queue.get(timeout=5) returns the oldest response
\* in the queue.
McGet ==
  /\ script = "client" /\ client.pc = "waiting"
  /\ client.response_queue # <<>>
  /\ LET returned == <<Head(client.response_queue)>>
     IN client' = [client EXCEPT
                     !.response_queue = Tail(@),
                     !.calls = Append(@, [id |-> client.next,
                                          returned |-> returned]),
                     !.pc = AfterCall(client.next, returned)]
  /\ UNCHANGED clientFrame

\* send_request: queue.Empty after 5 seconds, return None.
McTimeout ==
  /\ script = "client" /\ client.pc = "waiting"
  /\ client.response_queue = <<>>
  /\ client' = [client EXCEPT
                  !.calls = Append(@, [id |-> client.next,
                                       returned |-> <<>>]),
                  !.pc = AfterCall(client.next, <<>>)]
  /\ UNCHANGED clientFrame

\* run_tests: the last request has been sent; finally: self.stop_server()
McDone ==
  /\ script = "client" /\ client.pc = "idle"
  /\ client.next = ClientRequests
  /\ client' = [client EXCEPT !.pc = "finally"]
  /\ UNCHANGED clientFrame

\* The server reads the next request from its stdin and writes its answer.
McServe ==
  /\ script = "client" /\ client.proc = "running"
  /\ client.inbox # <<>>
  /\ client' = [client EXCEPT
                  !.inbox = Tail(@),
                  !.stdout = @ \o ServerReply(Head(client.inbox))]
  /\ UNCHANGED clientFrame

\* _read_responses: while self.running and self.proc.poll() is None:
\* readline(), json.loads, response_queue.put(response).
McReadResponse ==
  /\ script = "client"
  /\ client.running /\ client.proc = "running"
  /\ client.stdout # <<>>
  /\ client' = [client EXCEPT
                  !.stdout = Tail(@),
                  !.response_queue = Append(@, Head(client.stdout))]
  /\ UNCHANGED clientFrame

\* The server exits on its own.
McCrash ==
  /\ script = "client" /\ client.proc = "running"
  /\ client.pc \in {"idle", "waiting"}
  /\ client' = [client EXCEPT !.proc = "exited"]
  /\ UNCHANGED clientFrame

\* stop_server: self.running = False; if self.proc: self.proc.terminate().
\* A server that does not ignore SIGTERM exits on it.
McTerminate ==
  /\ script = "client" /\ client.pc = "finally"
  /\ client' = [client EXCEPT
                  !.running = FALSE,
                  !.proc = IF @ = "running" /\ ~client.stubborn
                           THEN "exited" ELSE @,
                  !.pc = IF client.proc = "none" THEN "stopped" ELSE "wait"]
  /\ UNCHANGED clientFrame

\* stop_server: self.proc.wait() returns once the server has exited.
McWait ==
  /\ script = "client" /\ client.pc = "wait"
  /\ client.proc = "exited"
  /\ client' = [client EXCEPT !.pc = "stopped"]
  /\ UNCHANGED clientFrame

NextClient ==
  \/ McStartServer \/ McSendRequest \/ McGet \/ McTimeout \/ McDone
  \/ McServe \/ McReadResponse \/ McCrash \/ McTerminate \/ McWait

SpecClient == InitClient /\ [][NextClient]_vars

----------------------------------------------------------------------------
\* create_malformed_jwt of http-oauth2-server-integration/tests/
\* test_oauth2_edge_cases.py, called while the clock runs.

\* Seconds the clock can advance.
MaxClock == 2

\* Calls of create_malformed_jwt that are followed.
MaxMade == 2

\* The malformation types the cases pass, and one the function does not know.
Variants == {"invalid_structure", "invalid_header", "invalid_payload",
             "invalid_signature", "oversized_token", "algorithm_none",
             "other"}

\* The payload segment: b64encode(json.dumps(claims)) without its padding.
\* The encoding is one to one, so the segment is kept as the claims it
\* encodes; iat = -1 stands for a payload without iat.
Payload(json, iat, large) == [json |-> json, iat |-> iat, large |-> large]

\* create_malformed_jwt(malformation_type) called when int(time.time()) is
\* `now`: the dot-separated segments of the string it returns.
CreateMalformedJwt(variant, now) ==
  CASE variant = "invalid_structure" ->
         <<"eyJhbGciOiJSUzI1NiIsInR5cCI6IkpXVCJ9", "eyJzdWIiOiJ0ZXN0In0">>
    [] variant = "invalid_header" ->
         <<"{alg:RS256,typ:JWT,}", Payload("{sub:test}", -1, FALSE),
           "invalid_signature">>
    [] variant = "invalid_payload" ->
         <<"{alg:RS256,typ:JWT}", Payload("{sub:test,}", -1, FALSE),
           "invalid_signature">>
    [] variant = "invalid_signature" ->
         <<"{alg:RS256,typ:JWT}", Payload("{sub:test,iat}", now, FALSE),
           "completely_invalid_signature_that_will_never_verify">>
    [] variant = "oversized_token" ->
         <<"{alg:RS256,typ:JWT}",
           Payload("{sub:test,iat,large_data}", now, TRUE), "signature">>
    [] variant = "algorithm_none" ->
         <<"{alg:none,typ:JWT}", Payload("{sub:test,iat}", now, FALSE), "">>
    [] OTHER -> <<"invalid_token">>

InitMint ==
  /\ script = "mint"
  /\ pc = "mint"
  /\ foreign = FALSE
  /\ noCleanup = FALSE
  /\ run = NoRun
  /\ tester = NoTester
  /\ wire = NoWire
  /\ matrix = NoMatrix
  /\ trial = NoTrial
  /\ ports = NoPorts
  /\ stdio = NoStdio
  /\ client = NoClient
  /\ mint = NoMint
  /\ InitEnv

mintFrame == <<script, pc, ret, exitCode, cur, attempt, proc, stubborn,
               serving, foreign, processes, gate, lastProbe, started,
               stopped, signals, deadStop, teardown, noCleanup, sigterm,
               run, tester, wire, matrix, trial, ports, stdio, client,
               buildVars>>

\* A second goes by.
MintTick ==
  /\ script = "mint" /\ mint.now < MaxClock
  /\ mint' = [mint EXCEPT !.now = @ + 1]
  /\ UNCHANGED mintFrame

\* A case calls create_malformed_jwt(variant).
MintCreate ==
  /\ script = "mint" /\ Len(mint.made) < MaxMade
  /\ \E v \in Variants :
       mint' = [mint EXCEPT !.made =
                  Append(@, [variant |-> v,
                             token |-> CreateMalformedJwt(v, mint.now)])]
  /\ UNCHANGED mintFrame

NextMint ==
  \/ MintTick
  \/ MintCreate

SpecMint == InitMint /\ [][NextMint]_vars

----------------------------------------------------------------------------
\* The state of a process handle, read off what the scripts keep about it.

\* The readiness gates that stand before handle h.
HandleGates(sc, h) == {g \in 1..NumGates(sc) : GateHandle(sc, g) = h}

\* A stop call has signalled the process of h while it was alive.
EndedByStop(h) ==
  \E i \in 1..Len(signals) : signals[i][2] = h /\ signals[i][3]

\* "none" before Popen; Stopped once a stop has signalled the live process;
\* Dead when the process exited without that; Ready when every gate of the
\* handle has reported Ready; Starting otherwise.
HandleState(h) ==
  IF proc[h] = "none" THEN "none"
  ELSE IF EndedByStop(h) THEN "Stopped"
  ELSE IF proc[h] = "exited" THEN "Dead"
  ELSE IF \A g \in HandleGates(script, h) : gate[g] = "Ready" THEN "Ready"
  ELSE "Starting"

----------------------------------------------------------------------------
\* Properties

Sent(sig, h) == \E i \in 1..Len(signals) : signals[i][1] = sig /\ signals[i][2] = h

GateFailed(g) == gate[g] \in {"Timeout", "Died"}

\* The handles a step has just run stop on.
NewlyStopped == SubSeq(stopped', Len(stopped) + 1, Len(stopped'))

\* Handle h has just been spawned.
Spawned(h) == proc[h] = "none" /\ proc'[h] = "running"

\* C1: for every run of a runner entry point, the exit code is 0 only if every
\* selected suite was run and every case in it passed.
C1_ExitZeroOnlyIfAllPassed == (pc = "exited" /\ exitCode = 0) => AllPassed

\* C2: once a service process has been started, stop is run for it on every
\* exit path of the run (unless --no-cleanup was asked for).
C2_StopRunOnEveryExitPath ==
  (pc = "exited" /\ script \in Scripts /\ ~noCleanup) =>
    \A h \in Handles : InSeq(h, started) => InSeq(h, stopped)

\* C3: a handle whose health gate timed out has no process left once the
\* orchestrator's teardown has finished.
C3_NoProcessAfterTeardown ==
  (pc = "exited" /\ teardown) =>
    \A g \in Gates : gate[g] = "Timeout" => proc[GateHandle(script, g)] # "running"

\* C4: stop sends SIGTERM first, sends SIGKILL exactly when the process has
\* not exited by the end of the grace period, and the process has exited when
\* stop returns.
C4_TerminateWaitKill ==
  \A h \in Handles : InSeq(h, stopped) =>
    /\ proc[h] # "running"
    /\ Sent("KILL", h) <=>
         (stubborn[h] /\ \E i \in 1..Len(signals) : signals[i] = <<"TERM", h, TRUE>>)
    /\ \A i \in 1..Len(signals) :
         (signals[i][1] = "KILL" /\ signals[i][2] = h) =>
           \E j \in 1..(i - 1) : signals[j][1] = "TERM" /\ signals[j][2] = h

C6_ReverseStartOrder ==
  (pc = "exited" /\ teardown) =>
    \A a, b \in Handles :
      (InSeq(a, started) /\ InSeq(b, started)
         /\ IndexOf(a, started) < IndexOf(b, started)) =>
        /\ InSeq(a, stopped) /\ InSeq(b, stopped)
        /\ IndexOf(b, stopped) < IndexOf(a, stopped)

\* C6 as amended: each teardown call stops the handles it holds in start
\* order, and when teardown has run stop has been run on every handle started.
C6_StopsHeldInStartOrder ==
  [][/\ \A i, j \in 1..Len(NewlyStopped) :
          i < j => IndexOf(NewlyStopped[i], started)
                     < IndexOf(NewlyStopped[j], started)
     /\ (teardown' /\ ~teardown) =>
          \A h \in Handles : InSeq(h, started) => InSeq(h, stopped')]_vars

\* Both servers were ready and the final stop_all_servers stopped them.
C6_Witness ==
  script = "flow" /\ pc = "exited" /\ started = <<1, 2>> /\ stopped = <<1, 2>>

\* C7: in ServerManager, once a service has failed to become Ready no later
\* service is started, every started service is torn down by the end of the
\* run, and every running service is held in `processes` for cleanup.
C7_FailFast ==
  script = "flow" =>
    /\ \A g \in 1..NumGates("flow") : GateFailed(g) =>
         \A h \in Handles : h > g => proc[h] = "none"
    /\ \A h \in Handles : proc[h] = "running" => InSeq(h, processes)
    /\ (pc = "exited" /\ \E g \in Gates : GateFailed(g)) =>
         \A h \in Handles : InSeq(h, started) =>
           (proc[h] = "exited" /\ InSeq(h, stopped))

\* The second server timed out after the first was ready; both were stopped.
C7_Witness ==
  script = "flow" /\ pc = "exited" /\ gate[1] = "Ready" /\ gate[2] = "Timeout"
    /\ stopped = <<2, 1>> /\ proc = <<"exited", "exited">>

\* C8 as stated: no service is spawned unless every earlier-declared service
\* has been gated to Ready.
C8_GatedBeforeNextStart ==
  [][\A h \in Handles : Spawned(h) =>
       \A e \in 1..(h - 1) : gate[e] = "Ready"]_vars

\* C8 as amended: services are spawned in declared order; start_all_servers
\* gates each to Ready before the next spawn, setup_class spawns the next
\* before any gate has started.
C8_DeclaredOrderGatedInFlow ==
  [][\A h \in Handles : Spawned(h) =>
       \A e \in 1..(h - 1) :
         /\ proc[e] # "none"
         /\ script = "flow" => gate[e] = "Ready"
         /\ script = "integ" => gate[e] = "none"]_vars

\* The second server of ServerManager is spawned, the first being Ready.
C8_Witness ==
  script = "flow" /\ started = <<1, 2>> /\ gate[1] = "Ready"
    /\ gate[2] = "polling" /\ proc[2] = "running"

\* C9: a gate is Ready only when its last probe returned a ready status code.
C9_ReadyOnlyOnReadyStatus ==
  \A g \in Gates : gate[g] = "Ready" => lastProbe[g] = "ready"

\* C10: a gate does not go on polling once the process behind it has exited:
\* no poll iteration ends in sleep-and-retry with that process gone.
C10_DiedNotPolledOn ==
  [][(pc = "gate" /\ attempt' = attempt + 1) =>
       \A g \in Gates :
         gate[g] = "polling" => proc[GateHandle(script, g)] # "exited"]_vars

\* C11: every health gate terminates: each poll iteration that leaves the gate
\* polling uses up one unit of a bounded budget, a gate resolves as Timeout
\* only once its budget is spent, and one probe hangs for at most 2 seconds.
C11_GateTerminatesWithinBudget ==
  [][/\ attempt' <= MaxAttempts \/ attempt' <= MaxJwksAttempts
     /\ ProbeTimeout(script) <= 2
     /\ (pc = "gate" /\ pc' = "gate" /\ lastProbe' # lastProbe) =>
          (attempt' = attempt + 1 \/ gate' # gate)
     /\ (pc = "gate" /\ pc' = "gate" /\ UNCHANGED <<envVars, gate>>) =>
          attempt' = attempt + 1
     /\ \A g \in Gates :
          (gate[g] = "polling" /\ gate'[g] = "Timeout") =>
            attempt >= (IF script = "edge" /\ g = 2
                        THEN MaxJwksAttempts ELSE MaxAttempts)]_vars

\* A gate whose last probe hung timed out after its whole budget.
C11_Witness ==
  script = "authflow" /\ gate[1] = "Timeout" /\ lastProbe[1] = "timeout"
    /\ attempt = MaxAttempts

\* C12: a failed build is fatal: once cargo build has failed no service
\* process is ever spawned, no test case is executed, and the script is on
\* its way out.
C12_BuildFailureIsFatal ==
  buildResult = "failed" =>
    /\ \A h \in Handles : proc[h] = "none"
    /\ started = <<>>
    /\ ~testsRun
    /\ pc \notin {"spawn", "gate", "tests", "suite"}

\* The authorization-flow script has left after its build failed.
C12_Witness ==
  script = "authflow" /\ buildResult = "failed" /\ pc = "exited"
    /\ exitCode = 1

\* C13: when a service is spawned, no process left over from another run is
\* still bound to its port: any such process has been killed beforehand.
C13_PortClearedBeforeSpawn ==
  [][\A h \in Handles : Spawned(h) => ~foreign]_vars

\* C14: every PKCE pair produced is method S256 with the challenge equal to
\* the unpadded base64url encoding of the digest of the verifier, and
\* recomputing the challenge from the verifier held gives the challenge held.
C14_ChallengeIsB64OfDigest ==
  tester.pkce # <<>> =>
    /\ tester.pkce.method = "S256"
    /\ tester.pkce.challenge =
         Base64UrlNoPad(Sha256Digest(EncodeUtf8(tester.pkce.verifier)))
    /\ tester.pkce.challenge = CodeChallenge(tester.pkce.verifier)
    /\ tester.pkce.verifier \in
         {Base64UrlNoPad(t) : t \in SeqsOf(TokenBytes, TokenLen)}

\* A pair was generated from a token whose encoding had to be stripped of
\* padding, and its challenge went out in the authorize request.
C14_Witness ==
  /\ JustRan("authorize") /\ tester.pkce # <<>>
  /\ tester.pkce.verifier = Base64UrlNoPad(<<251, 255>>)
  /\ wire.sent.challenge = tester.pkce.challenge
  /\ Len(tester.pkce.challenge) = (8 * DigestLen + 5) \div 6

\* C15: whenever the authorize step of the tester reports success, the state
\* the server returned equals the state that was sent.
C15_StateRoundTrips ==
  (tester.driver = "tester" /\ JustRan("authorize") /\ LastResult.passed) =>
    wire.response.state = wire.sent.state

\* C16: a 200 authorize response that is a human consent page fails the
\* authorize step, and no authorization code is taken from it.
C16_ConsentPageFails ==
  (JustRan("authorize") /\ wire.response.kind = "response"
     /\ wire.response.status = 200 /\ wire.response.consent) =>
    (~LastResult.passed /\ tester.authorization_code = "")

\* The tester met a consent page that does not use the words it looks for.
C16_Witness ==
  /\ tester.driver = "tester" /\ JustRan("authorize")
  /\ wire.response.status = 200 /\ wire.response.consent
  /\ ~wire.response.words
  /\ LastResult.message = "Unexpected response format" /\ pc = "done"

\* C17: the token-exchange step reports success on a 200 response only when
\* access_token, token_type and expires_in are all present and token_type is
\* bearer.
C17_TokenFieldsRequired ==
  (JustRan("token") /\ LastResult.passed) =>
    /\ wire.response.status = 200
    /\ wire.response.access_token # "absent"
    /\ wire.response.token_type # "absent"
    /\ wire.response.expires_in # "absent"
    /\ Lower(wire.response.token_type) = "bearer"

\* C18: the wrong-code and wrong-verifier cases pass only when the server
\* answered HTTP 400 with a body that carries an error field.
C18_RejectedWith400AndError ==
  ((JustRan("invalid_code") \/ JustRan("invalid_verifier"))
     /\ LastResult.passed) =>
    /\ wire.response.status = 400
    /\ wire.response.json /\ wire.response.error

\* C31: a redirect that carries both a code and an error parameter is not
\* reported as authorization success, and no authorization code is retained
\* from it.
C31_CodeWithErrorIsNotSuccess ==
  (tester.driver = "tester" /\ JustRan("authorize")
     /\ wire.response.kind = "response" /\ wire.response.status = 302
     /\ wire.response.code # "" /\ wire.response.error) =>
    (~LastResult.passed /\ tester.authorization_code = "")

\* C32: the token-exchange step reports success only on a response whose
\* expires_in is an integer greater than zero.
C32_ExpiresInPositiveInteger ==
  (tester.driver = "tester" /\ JustRan("token") /\ LastResult.passed) =>
    PositiveInteger(wire.response.expires_in)

\* C33: whenever the token-exchange step fails on the shape of the access
\* token, no access token is left stored on the tester.
C33_NoTokenKeptAfterShapeFailure ==
  (tester.driver = "tester" /\ JustRan("token")
     /\ LastResult.message = "Access token is not a valid JWT") =>
    tester.access_token = ""

\* C35: the authorization code submitted with the wrong verifier is one
\* that no earlier token exchange of the run has redeemed.
C35_WrongVerifierCodeIsFresh ==
  [][(pc = "invalid_verifier" /\ tester.authorization_code # "") =>
       tester.authorization_code \notin wire.redeemed]_vars

\* C36: a health gate never reports Ready for a handle whose own process
\* has already exited, even when another process answers the probe on the
\* same port.
C36_NoReadyForExitedProcess ==
  [][\A s \in PortSuites :
       (ports.sup[s].gate # "Ready" /\ ports'.sup[s].gate = "Ready") =>
         ports.sup[s].proc # "exited"]_vars

\* C38: when the build of the service under test fails, so that no test
\* case is executed at all, the exit code of the run is not zero.
C38_BuildFailureExitsNonZero ==
  (script = "oauth_mcp" /\ pc = "exited" /\ buildResult = "failed") =>
    (~testsRun /\ exitCode # 0)

\* C40: between the operations of the ServerManager, self.processes holds
\* exactly the servers that were spawned and have not been stopped since,
\* and once stop_all_servers has returned the map is empty and no process
\* the manager spawned is still running.
C40_ProcessesAreSpawnedNotStopped ==
  script = "flow" =>
    /\ {processes[i] : i \in 1..Len(processes)} =
         {started[i] : i \in 1..Len(started)}
           \ {stopped[i] : i \in 1..Len(stopped)}
    /\ \A h \in Handles :
         (proc[h] = "running" => InSeq(h, processes))
    /\ teardown =>
         /\ processes = <<>>
         /\ \A h \in Handles : proc[h] # "running"

\* Both servers were started, the second failed its gate and was stopped,
\* and stop_all_servers has stopped the first, which had to be killed.
C40_Witness ==
  /\ script = "flow" /\ teardown
  /\ started = <<1, 2>>
  /\ stopped = <<2, 1>>
  /\ processes = <<>>
  /\ \E i \in 1..Len(signals) : signals[i] = <<"KILL", 1, TRUE>>

\* C37: every value other than None that send_request returns is the
\* response to the request of that call: its id is the id of the request.
C37_ReturnedResponseMatchesRequest ==
  script = "client" =>
    \A i \in 1..Len(client.calls) :
      client.calls[i].returned # <<>> =>
        client.calls[i].returned[1].id = client.calls[i].id

\* C39: teardown returns within a bounded time: a stop is never left
\* waiting, with no limit, for a child that ignores the terminate signal it
\* was sent.
C39_TeardownNeverWaitsUnbounded ==
  script = "client" =>
    ~(client.pc = "wait" /\ client.proc = "running" /\ client.stubborn)

\* C34: create_malformed_jwt is a function of the variant alone: two calls
\* with the same variant return the same string, whenever they are made.
C34_MalformedJwtDependsOnVariantOnly ==
  script = "mint" =>
    \A i, j \in 1..Len(mint.made) :
      mint.made[i].variant = mint.made[j].variant =>
        mint.made[i].token = mint.made[j].token

\* C19: once the matrix has started every case of it is executed exactly
\* once, in order, whatever earlier cases did, and when the runner reaches
\* its summary each case has a recorded result with its name, its timing
\* and, for a failed case, the failure detail.
C19_EveryCaseRunOnceAndRecorded ==
  (script = "matrix" /\ pc \in {"summary", "exited"}) =>
    LET n == Len(Cases(matrix.runner))
    IN /\ matrix.executed = FirstNames(matrix.runner, n)
       /\ Len(matrix.test_results) = n
       /\ \A i \in 1..Len(matrix.test_results) :
            /\ matrix.test_results[i].name = matrix.executed[i]
            /\ matrix.test_results[i].duration = "measured"
            /\ matrix.test_results[i].passed = matrix.verdicts[i]
            /\ (~matrix.test_results[i].passed =>
                  matrix.test_results[i].error # "None")

\* C20: a case whose request ended in a connection-level exception is
\* counted as passed exactly when the case expects the transport to refuse
\* its oversized or malformed input; for every other case it is counted as
\* failed.
C20_ConnErrorPassIffTransportRejection ==
  script = "matrix" =>
    \A i \in 1..Len(matrix.outcomes) :
      matrix.outcomes[i] = "connerr" =>
        (matrix.verdicts[i] <=> Cases(matrix.runner)[i].transport)

\* C21: a malformed-JWT case passes only when the endpoint answered 401
\* or, for the oversized variant, the transport refused the request (the
\* connection failed, or the request was turned down with 400, 413 or 431);
\* an answer of 200 makes every variant fail.
C21_JwtPassOnly401OrOversizedRefused ==
  (script = "case" /\ pc = "judged" /\ trial.case \in JwtNames) =>
    /\ trial.verdict = "PASS" =>
         \/ (Answer.kind = "http" /\ Answer.status = 401)
         \/ /\ JwtCase(trial.case).oversized
            /\ \/ Answer.kind = "connerr"
               \/ (Answer.kind = "http" /\ Answer.status \in {400, 413, 431})
    /\ (Answer.kind = "http" /\ Answer.status = 200) =>
         trial.verdict = "FAIL"

\* C22: a case that sends a request without jsonrpc or without method
\* passes only when every answer it got carries the error code -32600.
C22_MissingFieldPassOnlyInvalidRequest ==
  (script = "case" /\ pc = "judged" /\ trial.verdict = "PASS"
   /\ trial.case \in {"test_missing_jsonrpc_version",
                      "test_missing_method_field",
                      "test_missing_required_fields"}) =>
    \A i \in 1..Len(trial.responses) :
      /\ trial.responses[i].kind = "http"
      /\ trial.responses[i].body = "error"
      /\ trial.responses[i].code = -32600

\* C23: a case that sends well-formed requests naming an unknown method
\* passes only when every answer it got carries the error code -32601.
C23_UnknownMethodPassOnlyMethodNotFound ==
  (script = "case" /\ pc = "judged" /\ trial.verdict = "PASS"
   /\ trial.case \in {"test_unknown_mcp_methods",
                      "apikey_test_invalid_method",
                      "stdio_test_invalid_method"}) =>
    \A i \in 1..Len(trial.responses) :
      /\ trial.responses[i].kind \in {"http", "line"}
      /\ trial.responses[i].body = "error"
      /\ trial.responses[i].code = -32601

\* C24: the oversized Authorization header case passes only when the
\* server answered with 400, 401, 413 or 431; no answer within the request
\* timeout and a failed connection are not passes.
C24_OversizedHeaderPassOnlyOnRejectionStatus ==
  (Judged("test_oversized_authorization_header")
   /\ trial.verdict = "PASS") =>
    /\ Answer.kind = "http"
    /\ Answer.status \in {400, 401, 413, 431}

\* C25: when a step of the OAuth2 flow fails, the failure is recorded, every
\* later step that needs its output is skipped (the token exchange makes no
\* request without an authorization code), and the driver does not end in
\* an unhandled exception.
C25_FailedStepSkipsDependentsNoCrash ==
  script = "pkce_flow" =>
    /\ pc # "crashed"
    /\ \A i, j \in 1..Len(tester.results) :
         (/\ i < j
          /\ ~tester.results[i].passed
          /\ tester.results[i].name \in {"discovery", "authorize"}
          /\ tester.results[j].name = "token") =>
           /\ ~tester.results[j].passed
           /\ tester.results[j].message = "No authorization code available"

\* C26: when a run was given the no-cleanup flag, the services it started
\* have not been signalled by it when it ends; when the flag is absent,
\* each of them has been stopped or at least signalled to stop.  Stated for the runs that
\* end on their own with exit code 0 (no interrupt, no signal, no failure).
C26_NoCleanupLeavesServicesRunning ==
  (script \in {"authflow", "edge"} /\ pc = "exited" /\ exitCode = 0) =>
    IF noCleanup
    THEN \A i \in 1..Len(signals) : signals[i][2] \notin Handles
    ELSE \A h \in Handles :
           proc[h] = "running" => \E i \in 1..Len(signals) : signals[i][2] = h

\* C27: a process handle moves only Starting -> Ready, Starting -> Dead,
\* Ready -> Stopped and Ready -> Dead: nothing re-enters Starting, and a
\* handle that is Dead or Stopped never changes state again.
C27_HandleStateMachine ==
  [][\A h \in Handles :
       HandleState(h)' # HandleState(h) =>
         \/ HandleState(h) = "none" /\ HandleState(h)' = "Starting"
         \/ HandleState(h) = "Starting"
              /\ HandleState(h)' \in {"Ready", "Dead"}
         \/ HandleState(h) = "Ready"
              /\ HandleState(h)' \in {"Stopped", "Dead"}]_vars

\* C27 as amended: a handle that is still Starting can also be stopped.
C27_HandleStateMachineWithEarlyStop ==
  [][\A h \in Handles :
       HandleState(h)' # HandleState(h) =>
         \/ HandleState(h) = "none" /\ HandleState(h)' = "Starting"
         \/ HandleState(h) = "Starting"
              /\ HandleState(h)' \in {"Ready", "Dead", "Stopped"}
         \/ HandleState(h) = "Ready"
              /\ HandleState(h)' \in {"Stopped", "Dead"}]_vars

C27_Witness ==
  /\ script = "flow"
  /\ gate[1] = "Timeout"
  /\ HandleState(1) = "Stopped"
  /\ ~InSeq(1, processes)

\* C28: a signal goes to a process this run did not spawn only in the
\* eviction that precedes the spawn; cleanup and teardown signal nothing but
\* the run's own processes.
C28_OnlyOwnProcessesSignalled ==
  [][(\E i \in (Len(signals) + 1)..Len(signals') :
        signals'[i][2] = Foreign /\ signals'[i][3])
     => (pc = "start" /\ started = <<>>)]_vars

\* C29: port ownership is serialized: a suite spawns its service only on a
\* port that is free after its eviction, and two suites started side by
\* side never both hold a live service claimed on the same port.
C29_PortOwnershipSerialized ==
  script = "ports" => ~(HoldsLive("A") /\ HoldsLive("B"))

====
